---- MODULE Spec2Model ----
(***************************************************************************)
(* Chronos Paradox backend: the guardrails (guardrails.py) and the causal  *)
(* graph of the Temporal Logic Engine (logic_engine.py).                   *)
(*                                                                         *)
(* Text is a sequence of one-character strings, so that lower-casing and   *)
(* substring search are computed and not assumed.  Real numbers are        *)
(* fixed-point integers: a risk or the accumulator x is the integer        *)
(* x * Scale, the butterfly index b is b * IndexScale.  The arithmetic is  *)
(* exact where the Python code uses binary floating point.                 *)
(***************************************************************************)
EXTENDS Integers, Sequences, FiniteSets, TLC

VARIABLES
    fl_pc,              \* filter run: "ready" before the call, "done" after it
    fl_in,              \* filter run: the argument of the call
    fl_ret,             \* filter run: the value returned
    paradox_limiter,    \* TemporalEthicsBoard.paradox_limiter: the ParadoxLimiter's fields
    limiter_invocations,\* how many times check_paradox_risk has been entered
    gr_calls,           \* how many guardrail calls have been made
    gr_call,            \* the last guardrail call: its name and arguments
    gr_ret,             \* the value the last guardrail call returned
    anchors,            \* TemporalLogicEngine.anchors: the anchors in insertion order
    causal_links,       \* TemporalLogicEngine.causal_links: the list of CausalLink
    fp_source,          \* _find_causal_path run: source_id
    fp_target,          \* _find_causal_path run: target_id
    fp,                 \* _find_causal_path run: queue, visited, pc, result
    cc_pc,              \* check_causality run: "ready" before the call, "done" after it
    cc_call,            \* check_causality run: source_era and target_era
    cc_ret,             \* check_causality run: the dict returned
    branches,           \* TemporalLogicEngine.branches
    engine_butterfly_index, \* TemporalLogicEngine.butterfly_index, in millionths of a point
    action_history,     \* TemporalLogicEngine.action_history
    client,             \* TemporalLogicEngine.client: TRUE when an oracle is configured
    clock,              \* datetime.utcnow(): the last reading taken
    en_pc,              \* engine: "idle", "oracle" while generate_content waits for
                        \* the service, "answered" once the service has answered
    en_call,            \* engine: the last call, its name and arguments
    en_ret,             \* engine: the value the last call returned
    process_command_calls, \* how many times the run has entered process_command
    world_states,       \* GenieBridge.world_states: era name to the state of its world
    tc_calls,           \* how many temporal-command requests the run has handled
    tc_call,            \* the last request: its body and what the handler found on entry
    tc_ret,             \* the response to the last request
    gb_calls,           \* how many direct apply_butterfly_effect calls have been made
    gb_call,            \* the last such call: its delta and the worlds before it
    gb_ret,             \* the summary the last such call returned
    th,                 \* request threads: each one's position and local values
    limiter_log,        \* the check_paradox_risk calls entered, in order: who, which check
    timeline_seen       \* get_timeline_state since the last process_command: what it
                        \* returned (ret) and whether it ran once or more often (calls)

filterVars == <<fl_pc, fl_in, fl_ret>>
guardVars == <<paradox_limiter, limiter_invocations, gr_calls, gr_call, gr_ret>>
graphVars == <<anchors, causal_links>>
pathVars == <<fp_source, fp_target, fp>>
causalityVars == <<cc_pc, cc_call, cc_ret>>
engineVars == <<branches, engine_butterfly_index, action_history, client, clock,
                en_pc, en_call, en_ret, process_command_calls, timeline_seen>>
threadVars == <<th, limiter_log>>
appVars == <<world_states, tc_calls, tc_call, tc_ret, gb_calls, gb_call, gb_ret>>
vars == <<fl_pc, fl_in, fl_ret,
          paradox_limiter, limiter_invocations, gr_calls, gr_call, gr_ret,
          anchors, causal_links, fp_source, fp_target, fp,
          cc_pc, cc_call, cc_ret,
          branches, engine_butterfly_index, action_history, client, clock,
          en_pc, en_call, en_ret, process_command_calls, timeline_seen,
          th, limiter_log,
          world_states, tc_calls, tc_call, tc_ret, gb_calls, gb_call, gb_ret>>

None == [none |-> TRUE]

Min(a, b) == IF a <= b THEN a ELSE b
Max(a, b) == IF a >= b THEN a ELSE b

\* the sequences over S of length at most n
SeqsUpTo(S, n) == UNION {[1..k -> S] : k \in 0..n}

(***************************************************************************)
(* Text                                                                    *)
(***************************************************************************)
UpperCase == <<"A","B","C","D","E","F","G","H","I","J","K","L","M",
               "N","O","P","Q","R","S","T","U","V","W","X","Y","Z">>
LowerCase == <<"a","b","c","d","e","f","g","h","i","j","k","l","m",
               "n","o","p","q","r","s","t","u","v","w","x","y","z">>

\* str.lower() on one character
LowerChar(c) ==
    IF \E i \in 1..Len(UpperCase) : UpperCase[i] = c
    THEN LowerCase[CHOOSE i \in 1..Len(UpperCase) : UpperCase[i] = c]
    ELSE c

\* str.lower()
Lower(text) == [i \in 1..Len(text) |-> LowerChar(text[i])]

\* keyword in text
Contains(text, keyword) ==
    \E i \in 1..(Len(text) - Len(keyword) + 1) :
        SubSeq(text, i, i + Len(keyword) - 1) = keyword

(***************************************************************************)
(* guardrails.py: SENSITIVE_KEYWORDS                                       *)
(***************************************************************************)
high_risk ==
    << <<"g","e","n","o","c","i","d","e">>,
       <<"t","e","r","r","o","r","i","s","m">>,
       <<"t","o","r","t","u","r","e">>,
       <<"t","r","a","f","f","i","c","k","i","n","g">>,
       <<"r","e","a","l","-","w","o","r","l","d"," ","a","s","s","a","s","s","i","n","a","t","i","o","n">>,
       <<"b","i","o","w","e","a","p","o","n">>,
       <<"n","u","c","l","e","a","r"," ","l","a","u","n","c","h">> >>

medium_risk ==
    << <<"e","n","s","l","a","v","e">>,
       <<"b","r","a","i","n","w","a","s","h">>,
       <<"m","a","s","s"," ","d","e","s","t","r","u","c","t","i","o","n">>,
       <<"p","l","a","g","u","e">>,
       <<"w","e","a","p","o","n","i","z","e">>,
       <<"o","v","e","r","t","h","r","o","w"," ","g","o","v","e","r","n","m","e","n","t">> >>

low_risk ==
    << <<"f","i","g","h","t">>,
       <<"b","a","t","t","l","e">>,
       <<"w","a","r">>,
       <<"c","o","n","f","l","i","c","t">>,
       <<"r","e","b","e","l">>,
       <<"s","t","e","a","l">>,
       <<"s","a","b","o","t","a","g","e">>,
       <<"s","p","y">> >>

\* the text appended by sanitize_narrative in place of a blocked narrative
\* (the element "U+2014" stands for the one character EM DASH)
REDACTION_MARKER ==
    <<"[","N","a","r","r","a","t","i","v","e"," ","r","e","d","a","c","t","e","d"," ","b","y"," ","T","e","m","p","o","r","a","l"," ","E","t","h","i","c","s"," ","B">>
    \o <<"o","a","r","d"," ","U+2014"," ","c","o","n","t","e","n","t"," ","e","x","c","e","e","d","s"," ","s","a","f","e","t","y"," ","p","a","r","a","m","e","t","e","r","s","]">>

(***************************************************************************)
(* guardrails.py: NarrativeSafetyFilter                                    *)
(***************************************************************************)
\* the violations one keyword list adds, in list order
Violations(keywords, severity, text_lower) ==
    LET hit == SelectSeq(keywords, LAMBDA k : Contains(text_lower, k))
    IN  [i \in 1..Len(hit) |-> [keyword |-> hit[i], severity |-> severity]]

_get_message(risk_level, violations) ==
    IF risk_level = "blocked" THEN "blocked by Responsible AI guardrails"
    ELSE IF risk_level = "warning" THEN "moderate narrative sensitivity"
    ELSE "Content passes safety checks"

\* the medium-risk scan runs although a high-risk keyword was found
check_content_NoBlockedGuard(text) ==
    LET text_lower == Lower(text)
        v_high == Violations(high_risk, "high", text_lower)
        v_med  == Violations(medium_risk, "medium", text_lower)
        level  == IF v_med # <<>> THEN "warning"
                  ELSE IF v_high # <<>> THEN "blocked" ELSE "safe"
        v_low  == IF level = "safe" THEN Violations(low_risk, "low", text_lower) ELSE <<>>
        violations == v_high \o v_med \o v_low
    IN  [is_safe |-> level # "blocked", risk_level |-> level,
         violations |-> violations, message |-> _get_message(level, violations)]

check_content(text) ==
    LET text_lower == Lower(text)
        v_high == Violations(high_risk, "high", text_lower)
        level1 == IF v_high # <<>> THEN "blocked" ELSE "safe"
        v_med  == IF level1 # "blocked"
                  THEN Violations(medium_risk, "medium", text_lower) ELSE <<>>
        level2 == IF v_med # <<>> THEN "warning" ELSE level1
        v_low  == IF level2 = "safe"
                  THEN Violations(low_risk, "low", text_lower) ELSE <<>>
        violations == v_high \o v_med \o v_low
    IN  [is_safe |-> level2 # "blocked", risk_level |-> level2,
         violations |-> violations, message |-> _get_message(level2, violations)]

\* a blocked narrative is dropped from the list instead of replaced
sanitize_narrative_Drop(narratives) ==
    SelectSeq(narratives, LAMBDA n : check_content(n).is_safe)

\* the marker is put in front of a blocked narrative, which is kept
sanitize_narrative_Annotate(narratives) ==
    [i \in 1..Len(narratives) |->
        IF check_content(narratives[i]).is_safe
        THEN narratives[i] ELSE REDACTION_MARKER \o narratives[i]]

sanitize_narrative(narratives) ==
    [i \in 1..Len(narratives) |->
        IF check_content(narratives[i]).is_safe
        THEN narratives[i] ELSE REDACTION_MARKER]

\* TemporalEthicsBoard.sanitize_output
sanitize_output(narratives) == sanitize_narrative(narratives)

(***************************************************************************)
(* guardrails.py: ParadoxLimiter.  proposed_risk is in thousandths,        *)
(* butterfly_index in tenths of a point, paradox_accumulator and the       *)
(* combined risk in ten-thousandths; the returned combined_risk is in      *)
(* thousandths (round(x, 3)).                                              *)
(***************************************************************************)
PARADOX_THRESHOLD == 8500
WARNING_THRESHOLD == 7000
COOLDOWN_RATE == 500

\* ParadoxLimiter.__init__
NewParadoxLimiter ==
    [paradox_accumulator |-> 0, gridlock_count |-> 0, actions_since_gridlock |-> 0]

\* round(x, 3) of a value in ten-thousandths: to the nearest thousandth, ties to even
Round3(x) ==
    LET q == x \div 10
        r == x % 10
    IN  IF r > 5 \/ (r = 5 /\ q % 2 = 1) THEN q + 1 ELSE q

\* a gridlock that leaves actions_since_gridlock as it was
Gridlocked_NoReset(nudged) ==
    [nudged EXCEPT !.gridlock_count = @ + 1]

\* lines 121-122: the counters on a gridlock decision
Gridlocked(nudged) ==
    [nudged EXCEPT !.gridlock_count = @ + 1, !.actions_since_gridlock = 0]

\* a cooldown without the floor at 0
CooledDown_NoFloor(nudged) ==
    [nudged EXCEPT !.actions_since_gridlock = @ + 1,
                   !.paradox_accumulator = @ - COOLDOWN_RATE]

\* lines 145-146: the counter and the cooldown on a safe decision
CooledDown(nudged) ==
    [nudged EXCEPT !.actions_since_gridlock = @ + 1,
                   !.paradox_accumulator = Max(0, @ - COOLDOWN_RATE)]

\* the accumulator after line 118 without the cap at 1.0
NudgedAccumulator_NoClamp(self, proposed_risk) ==
    self.paradox_accumulator + proposed_risk

\* the accumulator after the unconditional nudge of line 118:
\* min(1.0, accumulator + proposed_risk * 0.1), in ten-thousandths
NudgedAccumulator(self, proposed_risk) ==
    Min(10000, self.paradox_accumulator + proposed_risk)

\* the gridlock test is strict, so a combined risk of exactly 0.85 only warns
check_paradox_risk_StrictThreshold(self, proposed_risk, butterfly_index) ==
    LET combined_risk == proposed_risk * 6 + butterfly_index * 4
        nudged == [self EXCEPT !.paradox_accumulator =
                       NudgedAccumulator(self, proposed_risk)]
    IN  IF combined_risk > PARADOX_THRESHOLD
        THEN LET after == Gridlocked(nudged)
             IN  [self |-> after, nudged |-> nudged.paradox_accumulator,
                  ret  |-> [allowed |-> FALSE, status |-> "gridlock",
                            combined_risk |-> Round3(combined_risk),
                            message |-> "AGENTIC GRIDLOCK",
                            suggestion |-> "observe or make a smaller change",
                            gridlock_count |-> after.gridlock_count]]
        ELSE IF combined_risk >= WARNING_THRESHOLD
        THEN [self |-> nudged, nudged |-> nudged.paradox_accumulator,
              ret  |-> [allowed |-> TRUE, status |-> "warning",
                        combined_risk |-> Round3(combined_risk),
                        message |-> "HIGH PARADOX RISK",
                        suggestion |-> "stabilize the timeline"]]
        ELSE [self |-> CooledDown(nudged),
              nudged |-> nudged.paradox_accumulator,
              ret  |-> [allowed |-> TRUE, status |-> "safe",
                        combined_risk |-> Round3(combined_risk),
                        message |-> "within acceptable limits"]]

\* the accumulated paradox counts as risk: a limiter that has seen enough
\* risk refuses whatever the arguments are
check_paradox_risk_AccumulatorCounts(self, proposed_risk, butterfly_index) ==
    LET combined_risk == Max(proposed_risk * 6 + butterfly_index * 4,
                            self.paradox_accumulator)
        nudged == [self EXCEPT !.paradox_accumulator =
                       NudgedAccumulator(self, proposed_risk)]
    IN  IF combined_risk >= PARADOX_THRESHOLD
        THEN LET after == Gridlocked(nudged)
             IN  [self |-> after, nudged |-> nudged.paradox_accumulator,
                  ret  |-> [allowed |-> FALSE, status |-> "gridlock",
                            combined_risk |-> Round3(combined_risk),
                            message |-> "AGENTIC GRIDLOCK",
                            suggestion |-> "observe or make a smaller change",
                            gridlock_count |-> after.gridlock_count]]
        ELSE IF combined_risk >= WARNING_THRESHOLD
        THEN [self |-> nudged, nudged |-> nudged.paradox_accumulator,
              ret  |-> [allowed |-> TRUE, status |-> "warning",
                        combined_risk |-> Round3(combined_risk),
                        message |-> "HIGH PARADOX RISK",
                        suggestion |-> "stabilize the timeline"]]
        ELSE [self |-> CooledDown(nudged),
              nudged |-> nudged.paradox_accumulator,
              ret  |-> [allowed |-> TRUE, status |-> "safe",
                        combined_risk |-> Round3(combined_risk),
                        message |-> "within acceptable limits"]]

\* the limiter after the call (self), the dict returned (ret) and the
\* accumulator as line 118 left it (nudged)
check_paradox_risk(self, proposed_risk, butterfly_index) ==
    LET combined_risk == proposed_risk * 6 + butterfly_index * 4
        nudged == [self EXCEPT !.paradox_accumulator =
                       NudgedAccumulator(self, proposed_risk)]
    IN  IF combined_risk >= PARADOX_THRESHOLD
        THEN LET after == Gridlocked(nudged)
             IN  [self |-> after, nudged |-> nudged.paradox_accumulator,
                  ret  |-> [allowed |-> FALSE, status |-> "gridlock",
                            combined_risk |-> Round3(combined_risk),
                            message |-> "AGENTIC GRIDLOCK",
                            suggestion |-> "observe or make a smaller change",
                            gridlock_count |-> after.gridlock_count]]
        ELSE IF combined_risk >= WARNING_THRESHOLD
        THEN [self |-> nudged, nudged |-> nudged.paradox_accumulator,
              ret  |-> [allowed |-> TRUE, status |-> "warning",
                        combined_risk |-> Round3(combined_risk),
                        message |-> "HIGH PARADOX RISK",
                        suggestion |-> "stabilize the timeline"]]
        ELSE [self |-> CooledDown(nudged),
              nudged |-> nudged.paradox_accumulator,
              ret  |-> [allowed |-> TRUE, status |-> "safe",
                        combined_risk |-> Round3(combined_risk),
                        message |-> "within acceptable limits"]]

(***************************************************************************)
(* guardrails.py: TemporalEthicsBoard.  self is the board's limiter (the   *)
(* filter has no state); invoked counts the calls of check_paradox_risk.   *)
(***************************************************************************)
\* the limiter runs before the content verdict is looked at
evaluate_action_LimiterFirst(self, command, paradox_risk, butterfly_index) ==
    LET safety  == check_content(command)
        paradox == check_paradox_risk(self, paradox_risk, butterfly_index)
    IN  IF ~safety.is_safe
        THEN [self |-> paradox.self, invoked |-> 1,
              ret |-> [approved |-> FALSE, reason |-> "content_safety",
                       details |-> safety]]
        ELSE IF ~paradox.ret.allowed
        THEN [self |-> paradox.self, invoked |-> 1,
              ret |-> [approved |-> FALSE, reason |-> "paradox_gridlock",
                       details |-> paradox.ret]]
        ELSE [self |-> paradox.self, invoked |-> 1,
              ret |-> [approved |-> TRUE, safety |-> safety, paradox |-> paradox.ret]]

\* a gridlock verdict is attached to an approval instead of rejecting
evaluate_action_ApproveGridlock(self, command, paradox_risk, butterfly_index) ==
    LET safety == check_content(command)
    IN  IF ~safety.is_safe
        THEN [self |-> self, invoked |-> 0,
              ret |-> [approved |-> FALSE, reason |-> "content_safety",
                       details |-> safety]]
        ELSE LET paradox == check_paradox_risk(self, paradox_risk, butterfly_index)
             IN  [self |-> paradox.self, invoked |-> 1,
                  ret |-> [approved |-> TRUE, safety |-> safety,
                           paradox |-> paradox.ret]]

evaluate_action(self, command, paradox_risk, butterfly_index) ==
    LET safety == check_content(command)
    IN  IF ~safety.is_safe
        THEN [self |-> self, invoked |-> 0,
              ret |-> [approved |-> FALSE, reason |-> "content_safety",
                       details |-> safety]]
        ELSE LET paradox == check_paradox_risk(self, paradox_risk, butterfly_index)
             IN  IF ~paradox.ret.allowed
                 THEN [self |-> paradox.self, invoked |-> 1,
                       ret |-> [approved |-> FALSE, reason |-> "paradox_gridlock",
                                details |-> paradox.ret]]
                 ELSE [self |-> paradox.self, invoked |-> 1,
                       ret |-> [approved |-> TRUE, safety |-> safety,
                                paradox |-> paradox.ret]]

(***************************************************************************)
(* Inputs of the guardrail calls                                           *)
(***************************************************************************)
MaxCalls == 2

\* proposed_risk in [0, 1], in thousandths
ProposedRisks == {0, 100, 500, 749, 750, 1000}
\* butterfly_index in [0, 100], in tenths
ButterflyIndexes == {0, 700, 999, 1000}

\* "Commit genocide", "Enslave the era", "Observe the stars"
Commands ==
    { <<"C","o","m","m","i","t"," ","g","e","n","o","c","i","d","e">>,
      <<"E","n","s","l","a","v","e"," ","t","h","e"," ","e","r","a">>,
      <<"O","b","s","e","r","v","e"," ","t","h","e"," ","s","t","a","r","s">> }

(***************************************************************************)
(* SpecGuardrails: calls on one TemporalEthicsBoard and its limiter        *)
(***************************************************************************)
FilterOff == fl_pc = "off" /\ fl_in = None /\ fl_ret = None

GuardrailsNew ==
    /\ paradox_limiter = NewParadoxLimiter
    /\ limiter_invocations = 0
    /\ gr_calls = 0
    /\ gr_call = None
    /\ gr_ret = None

GenieCallsOff == gb_calls = 0 /\ gb_call = None /\ gb_ret = None

AppOff ==
    /\ world_states = <<>>
    /\ tc_calls = 0
    /\ tc_call = None
    /\ tc_ret = None
    /\ GenieCallsOff

EngineOff ==
    /\ branches = <<>>
    /\ engine_butterfly_index = 0
    /\ action_history = <<>>
    /\ client = FALSE
    /\ clock = 0
    /\ en_pc = "off"
    /\ en_call = None
    /\ en_ret = None
    /\ process_command_calls = 0
    /\ timeline_seen = None
    /\ th = <<>>
    /\ limiter_log = <<>>
    /\ AppOff

CausalityOff == cc_pc = "off" /\ cc_call = None /\ cc_ret = None

GraphOff ==
    /\ anchors = <<>>
    /\ causal_links = <<>>
    /\ fp_source = None
    /\ fp_target = None
    /\ fp = None
    /\ cc_pc = "off"
    /\ cc_call = None
    /\ cc_ret = None

InitGuardrails == GuardrailsNew /\ FilterOff /\ GraphOff /\ EngineOff

CheckParadoxRiskCall ==
    \E proposed_risk \in ProposedRisks, butterfly_index \in ButterflyIndexes :
        LET r == check_paradox_risk(paradox_limiter, proposed_risk, butterfly_index)
        IN  /\ gr_calls < MaxCalls
            /\ paradox_limiter' = r.self
            /\ limiter_invocations' = limiter_invocations + 1
            /\ gr_calls' = gr_calls + 1
            /\ gr_call' = [op |-> "check_paradox_risk", proposed_risk |-> proposed_risk,
                           butterfly_index |-> butterfly_index,
                           before |-> paradox_limiter.paradox_accumulator,
                           nudged |-> r.nudged,
                           limiter_before |-> paradox_limiter]
            /\ gr_ret' = r.ret
            /\ UNCHANGED <<filterVars, graphVars, pathVars, causalityVars, engineVars, threadVars, appVars>>

EvaluateActionCall ==
    \E command \in Commands, paradox_risk \in ProposedRisks,
       butterfly_index \in ButterflyIndexes :
        LET r == evaluate_action(paradox_limiter, command, paradox_risk, butterfly_index)
        IN  /\ gr_calls < MaxCalls
            /\ paradox_limiter' = r.self
            /\ limiter_invocations' = limiter_invocations + r.invoked
            /\ gr_calls' = gr_calls + 1
            /\ gr_call' = [op |-> "evaluate_action", command |-> command,
                           proposed_risk |-> paradox_risk,
                           butterfly_index |-> butterfly_index]
            /\ gr_ret' = r.ret
            /\ UNCHANGED <<filterVars, graphVars, pathVars, causalityVars, engineVars, threadVars, appVars>>

NextGuardrails == CheckParadoxRiskCall \/ EvaluateActionCall

SpecGuardrails == InitGuardrails /\ [][NextGuardrails]_vars

\* the last guardrail call was op
LastCallIs(op) == gr_calls > 0 /\ gr_call.op = op

(***************************************************************************)
(* The limiter alone: check_paradox_risk called on a new limiter and on a  *)
(* limiter late in a session                                               *)
(***************************************************************************)
\* the limiter after ten calls check_paradox_risk(0.95, 100), each a gridlock
WornParadoxLimiter ==
    [paradox_accumulator |-> 9500, gridlock_count |-> 10, actions_since_gridlock |-> 0]

InitLimiter ==
    /\ paradox_limiter \in {NewParadoxLimiter, WornParadoxLimiter}
    /\ limiter_invocations = 0
    /\ gr_calls = 0
    /\ gr_call = None
    /\ gr_ret = None
    /\ FilterOff
    /\ GraphOff
    /\ EngineOff

NextLimiter == CheckParadoxRiskCall

SpecLimiter == InitLimiter /\ [][NextLimiter]_vars

\* C12: after any sequence of check_paradox_risk calls with proposed_risk in
\* [0,1] the accumulator lies in [0,1] at every point where it has been
\* assigned (after the nudge of line 118 and at the end of the call), and the
\* value right after the nudge is at least the value before the call.
C12_AccumulatorInRangeAndNudgedUp ==
    /\ paradox_limiter.paradox_accumulator \in 0..10000
    /\ LastCallIs("check_paradox_risk") =>
           /\ gr_call.nudged \in 0..10000
           /\ gr_call.nudged >= gr_call.before

\* a call whose nudge was cut at 1.0, after an earlier call whose cooldown
\* took the accumulator down
C12_Witness ==
    /\ gr_calls = 2
    /\ LastCallIs("check_paradox_risk")
    /\ gr_call.before < 9500
    /\ gr_call.before + gr_call.proposed_risk > 10000
    /\ gr_call.nudged = 10000

\* what a check_paradox_risk result decides
Decision(ret) == <<ret.allowed, ret.status, ret.combined_risk>>

\* C33: the decision check_paradox_risk returns (allowed, status,
\* combined_risk) depends on the call's two arguments only: whatever the
\* limiter's accumulator, gridlock count and earlier calls, it is the decision
\* a new limiter and a worn limiter give for the same proposed_risk and
\* butterfly_index.
C33_DecisionIgnoresTheLimiter ==
    LastCallIs("check_paradox_risk") =>
        \A other \in {NewParadoxLimiter, WornParadoxLimiter} :
            Decision(check_paradox_risk(other, gr_call.proposed_risk,
                                        gr_call.butterfly_index).ret)
                = Decision(gr_ret)

\* the second call of a session, on a limiter that differs from a new one in
\* its accumulator and in its gridlock count
C33_Witness ==
    /\ LastCallIs("check_paradox_risk")
    /\ gr_calls = 2
    /\ gr_call.limiter_before.paradox_accumulator \notin {0, 9500}
    /\ gr_call.limiter_before.gridlock_count = 1
    /\ gr_ret.status = "safe"

\* C23: the gridlock counter changes only on a gridlock decision and then by
\* exactly +1; that call resets actions_since_gridlock to 0 and keeps the
\* nudged accumulator; a warning decision changes neither counter.
C23_GridlockCountsOnce ==
    LastCallIs("check_paradox_risk") =>
        LET old == gr_call.limiter_before
            new == paradox_limiter
        IN  /\ new.gridlock_count # old.gridlock_count => gr_ret.status = "gridlock"
            /\ gr_ret.status = "gridlock" =>
                   /\ new.gridlock_count = old.gridlock_count + 1
                   /\ gr_ret.gridlock_count = new.gridlock_count
                   /\ new.actions_since_gridlock = 0
                   /\ new.paradox_accumulator =
                          Min(10000, old.paradox_accumulator + gr_call.proposed_risk)
            /\ gr_ret.status = "warning" =>
                   /\ new.gridlock_count = old.gridlock_count
                   /\ new.actions_since_gridlock = old.actions_since_gridlock

\* a gridlock, after a safe call had counted one action, with a nudge kept
C23_Witness ==
    /\ LastCallIs("check_paradox_risk")
    /\ gr_ret.status = "gridlock"
    /\ gr_call.limiter_before.actions_since_gridlock = 1
    /\ paradox_limiter.actions_since_gridlock = 0
    /\ paradox_limiter.paradox_accumulator > gr_call.limiter_before.paradox_accumulator

\* C28: a safe decision increments actions_since_gridlock by exactly 1,
\* leaves the gridlock counter unchanged and leaves the accumulator at
\* max(0, min(1, old + 0.1 * proposed_risk) - 0.05).
C28_SafeDecisionCoolsDown ==
    (LastCallIs("check_paradox_risk") /\ gr_ret.status = "safe") =>
        LET old == gr_call.limiter_before
            new == paradox_limiter
        IN  /\ new.actions_since_gridlock = old.actions_since_gridlock + 1
            /\ new.gridlock_count = old.gridlock_count
            /\ new.paradox_accumulator =
                   Max(0, Min(10000, old.paradox_accumulator + gr_call.proposed_risk) - 500)

\* the second safe call in a row, nudged by a positive risk, whose cooldown
\* stopped at 0
C28_Witness ==
    /\ LastCallIs("check_paradox_risk")
    /\ gr_ret.status = "safe"
    /\ gr_call.proposed_risk > 0
    /\ gr_call.nudged < 500
    /\ paradox_limiter.paradox_accumulator = 0
    /\ paradox_limiter.actions_since_gridlock = 2

C2_BlockedCommandSkipsLimiter ==
    [][ ( /\ gr_calls' = gr_calls + 1
          /\ gr_call'.op = "evaluate_action"
          /\ ~check_content(gr_call'.command).is_safe )
        => /\ gr_ret' = [approved |-> FALSE, reason |-> "content_safety",
                         details |-> check_content(gr_call'.command)]
           /\ gr_ret'.details.risk_level = "blocked"
           /\ limiter_invocations' = limiter_invocations
           /\ paradox_limiter'.paradox_accumulator = paradox_limiter.paradox_accumulator
           /\ paradox_limiter'.gridlock_count = paradox_limiter.gridlock_count
           /\ paradox_limiter'.actions_since_gridlock
                  = paradox_limiter.actions_since_gridlock ]_vars

\* a blocked command was rejected on a limiter that an earlier call had already moved
C2_Witness ==
    /\ LastCallIs("evaluate_action")
    /\ ~check_content(gr_call.command).is_safe
    /\ gr_ret.approved = FALSE
    /\ gr_ret.reason = "content_safety"
    /\ gr_call.proposed_risk > 0
    /\ limiter_invocations = 1
    /\ paradox_limiter.paradox_accumulator > 0
    /\ paradox_limiter.gridlock_count = 1

\* C3: for a command the safety filter does not block, evaluate_action returns
\* approved true, with the safety verdict and the limiter verdict attached,
\* exactly when the limiter's decision is allowed (safe or warning), and
\* approved false with reason paradox_gridlock and the limiter verdict as
\* details exactly when the limiter's decision is gridlock.
C3_ApprovedIffLimiterAllows ==
    [][ ( /\ gr_calls' = gr_calls + 1
          /\ gr_call'.op = "evaluate_action"
          /\ check_content(gr_call'.command).is_safe )
        => LET decision == check_paradox_risk(paradox_limiter, gr_call'.proposed_risk,
                                              gr_call'.butterfly_index).ret
           IN  /\ limiter_invocations' = limiter_invocations + 1
               /\ gr_ret'.approved <=> decision.allowed
               /\ gr_ret'.approved <=> (decision.status \in {"safe", "warning"})
               /\ (~gr_ret'.approved) <=> (decision.status = "gridlock")
               /\ gr_ret'.approved =>
                      gr_ret' = [approved |-> TRUE,
                                 safety |-> check_content(gr_call'.command),
                                 paradox |-> decision]
               /\ (~gr_ret'.approved) =>
                      gr_ret' = [approved |-> FALSE, reason |-> "paradox_gridlock",
                                 details |-> decision] ]_vars

\* an unblocked command was rejected because the limiter decided gridlock
C3_Witness ==
    /\ LastCallIs("evaluate_action")
    /\ check_content(gr_call.command).is_safe
    /\ gr_ret.approved = FALSE
    /\ gr_ret.reason = "paradox_gridlock"
    /\ gr_ret.details.status = "gridlock"

(***************************************************************************)
(* logic_engine.py: the seeded timeline.  An anchor keeps id, era and      *)
(* status; a link keeps source_id, target_id, effect_type and magnitude    *)
(* (in tenths).                                                            *)
(***************************************************************************)
Anchor(id, era, status) == [id |-> id, era |-> era, status |-> status]

Link(source_id, target_id, effect_type, magnitude) ==
    [source_id |-> source_id, target_id |-> target_id,
     effect_type |-> effect_type, magnitude |-> magnitude]

default_anchors ==
    << Anchor("n1", "Dark Ages", "stable"),
       Anchor("n2", "Medieval", "stable"),
       Anchor("n3", "Renaissance", "shifting"),
       Anchor("n4", "Enlightenment", "stable"),
       Anchor("n5", "Industrial", "stable"),
       Anchor("n6", "Digital", "shifting"),
       Anchor("n7", "Neo Age", "stable"),
       Anchor("n8", "Cyberpunk", "paradox") >>

default_links ==
    << Link("n1", "n2", "positive", 3),
       Link("n2", "n3", "positive", 5),
       Link("n3", "n4", "positive", 7),
       Link("n3", "n5", "neutral", 2),
       Link("n4", "n5", "positive", 6),
       Link("n5", "n6", "positive", 8),
       Link("n6", "n7", "positive", 5),
       Link("n6", "n8", "negative", 4),
       Link("n7", "n8", "positive", 6) >>

\* x in p, for a list p
InSeq(x, p) == \E i \in 1..Len(p) : p[i] = x

\* the keys of self.anchors
AnchorIds(anchorSeq) == {anchorSeq[i].id : i \in 1..Len(anchorSeq)}

(***************************************************************************)
(* logic_engine.py: TemporalLogicEngine._find_causal_path                  *)
(***************************************************************************)
\* visited = set(); queue = [(source_id, [source_id])]
BfsStart(source_id) ==
    [queue |-> << [current |-> source_id, path |-> <<source_id>>] >>,
     visited |-> {},
     expanded |-> <<>>,     \* the nodes whose links were scanned, in order
     pc |-> "loop",
     result |-> <<>>]

\* the queue entries one scan of causal_links appends for current
Discovered(links, current, path, visited) ==
    LET out == SelectSeq(links, LAMBDA l : l.source_id = current
                                           /\ l.target_id \notin visited)
    IN  [i \in 1..Len(out) |->
            [current |-> out[i].target_id, path |-> Append(path, out[i].target_id)]]

\* a dequeued node that is already visited is scanned again
BfsIteration_NoVisitedSkip(links, target_id, b) ==
    IF b.queue = <<>>
    THEN [b EXCEPT !.pc = "done", !.result = <<>>]
    ELSE LET current == Head(b.queue).current
             path == Head(b.queue).path
             rest == Tail(b.queue)
         IN  IF current = target_id
             THEN [b EXCEPT !.queue = rest, !.pc = "done", !.result = path]
             ELSE [b EXCEPT !.visited = @ \cup {current},
                            !.expanded = Append(@, current),
                            !.queue = rest \o Discovered(links, current, path,
                                                         b.visited \cup {current})]

\* links are followed against their direction
BfsIteration_Reverse(links, target_id, b) ==
    IF b.queue = <<>>
    THEN [b EXCEPT !.pc = "done", !.result = <<>>]
    ELSE LET current == Head(b.queue).current
             path == Head(b.queue).path
             rest == Tail(b.queue)
             back == [i \in 1..Len(links) |->
                         [links[i] EXCEPT !.source_id = links[i].target_id,
                                          !.target_id = links[i].source_id]]
         IN  IF current = target_id
             THEN [b EXCEPT !.queue = rest, !.pc = "done", !.result = path]
             ELSE IF current \in b.visited
             THEN [b EXCEPT !.queue = rest]
             ELSE [b EXCEPT !.visited = @ \cup {current},
                            !.expanded = Append(@, current),
                            !.queue = rest \o Discovered(back, current, path,
                                                         b.visited \cup {current})]

\* one pass of the while loop, or the return [] after it
BfsIteration(links, target_id, b) ==
    IF b.queue = <<>>
    THEN [b EXCEPT !.pc = "done", !.result = <<>>]
    ELSE LET current == Head(b.queue).current
             path == Head(b.queue).path
             rest == Tail(b.queue)
         IN  IF current = target_id
             THEN [b EXCEPT !.queue = rest, !.pc = "done", !.result = path]
             ELSE IF current \in b.visited
             THEN [b EXCEPT !.queue = rest]
             ELSE [b EXCEPT !.visited = @ \cup {current},
                            !.expanded = Append(@, current),
                            !.queue = rest \o Discovered(links, current, path,
                                                         b.visited \cup {current})]

RECURSIVE BfsRun(_, _, _)
BfsRun(links, target_id, b) ==
    IF b.pc = "done" THEN b ELSE BfsRun(links, target_id, BfsIteration(links, target_id, b))

\* the whole call
_find_causal_path(links, source_id, target_id) ==
    BfsRun(links, target_id, BfsStart(source_id)).result

(***************************************************************************)
(* Inputs of the path runs                                                 *)
(***************************************************************************)
MaxLinks == 3

\* an id that no anchor has
UnknownId == "zz"

\* the anchors the drawn link lists connect
SmallNodes == {"n1", "n2", "n3"}

SmallLinks == {Link(a, b, "positive", 5) : a \in SmallNodes, b \in SmallNodes}

\* every list of at most MaxLinks links over SmallNodes: cycles, self-loops and
\* repeated links included
SmallLinkLists == SeqsUpTo(SmallLinks, MaxLinks)

(***************************************************************************)
(* SpecFindPath: one _find_causal_path call, one loop pass per step, on    *)
(* the seeded links or on a drawn link list                                *)
(***************************************************************************)
InitFindPath ==
    /\ FilterOff
    /\ EngineOff
    /\ GuardrailsNew
    /\ CausalityOff
    /\ anchors = default_anchors
    /\ \/ /\ causal_links = default_links
          /\ fp_source \in AnchorIds(default_anchors) \cup {UnknownId}
          /\ fp_target \in AnchorIds(default_anchors) \cup {UnknownId}
       \/ /\ causal_links \in SmallLinkLists
          /\ fp_source \in {"n1", UnknownId}
          /\ fp_target \in SmallNodes \cup {UnknownId}
    /\ fp = BfsStart(fp_source)

FindPathStep ==
    /\ fp.pc = "loop"
    /\ fp' = BfsIteration(causal_links, fp_target, fp)
    /\ UNCHANGED <<fp_source, fp_target, graphVars, filterVars, guardVars, causalityVars, engineVars, threadVars, appVars>>

NextFindPath == FindPathStep

SpecFindPath == InitFindPath /\ [][NextFindPath]_vars

\* the loop is the only activity of the call: it keeps running until it returns
SpecFindPathLive == SpecFindPath /\ WF_vars(FindPathStep)

(***************************************************************************)
(* Claims on the path runs (SpecFindPath, SpecFindPathLive)                *)
(***************************************************************************)
\* the targets of the links that leave a node of S
Successors(links, S) ==
    {links[i].target_id : i \in {j \in 1..Len(links) : links[j].source_id \in S}}

\* the nodes at most k forward links away from source
RECURSIVE WithinHops(_, _, _)
WithinHops(links, source, k) ==
    IF k = 0 THEN {source}
    ELSE LET W == WithinHops(links, source, k - 1) IN W \cup Successors(links, W)

ForwardReachable(links, source, target) ==
    target \in WithinHops(links, source, Len(links))

\* the least number of forward links from source to a reachable target
Hops(links, source, target) ==
    CHOOSE k \in 0..Len(links) :
        /\ target \in WithinHops(links, source, k)
        /\ \A j \in 0..(k - 1) : target \notin WithinHops(links, source, j)

\* every consecutive pair of p is joined by a link in its own direction
IsForwardPath(links, p) ==
    \A i \in 1..(Len(p) - 1) :
        \E j \in 1..Len(links) :
            links[j].source_id = p[i] /\ links[j].target_id = p[i + 1]

NoRepeat(p) == \A i, j \in 1..Len(p) : p[i] = p[j] => i = j

\* C6: when the target is reachable from the source over forward links,
\* find_path returns a sequence that starts at the source, ends at the target,
\* joins every consecutive pair by a link in source-to-target direction,
\* repeats no node and has the least number of edges of all forward paths; on
\* the seeded graph find_path(n1,n2) = [n1,n2] and find_path(n1,n3) has at
\* least 3 nodes, both endpoints among them.
C6_ShortestForwardPath ==
    (fp.pc = "done" /\ ForwardReachable(causal_links, fp_source, fp_target)) =>
        LET path == fp.result
        IN  /\ path # <<>>
            /\ path[1] = fp_source
            /\ path[Len(path)] = fp_target
            /\ IsForwardPath(causal_links, path)
            /\ NoRepeat(path)
            /\ Len(path) - 1 = Hops(causal_links, fp_source, fp_target)
            /\ (causal_links = default_links /\ fp_source = "n1" /\ fp_target = "n2")
                   => path = <<"n1", "n2">>
            /\ (causal_links = default_links /\ fp_source = "n1" /\ fp_target = "n3")
                   => (Len(path) >= 3 /\ InSeq("n1", path) /\ InSeq("n3", path))

\* on the seeded graph the search from n3 to n5 took the direct link, not n3-n4-n5
C6_Witness ==
    /\ fp.pc = "done"
    /\ causal_links = default_links
    /\ fp_source = "n3"
    /\ fp_target = "n5"
    /\ fp.result = <<"n3", "n5">>
    /\ fp.expanded = <<"n3", "n4">>

\* C7: find_path(a,a) returns [a] for an anchor a; find_path returns the empty
\* sequence whenever the target is not reachable from the source over forward
\* links, and whenever the source id or the target id is not the id of an
\* existing anchor.
C7_EmptyWhenUnknownOrUnreachable ==
    fp.pc = "done" =>
        /\ (fp_source = fp_target /\ fp_source \in AnchorIds(anchors))
               => fp.result = <<fp_source>>
        /\ ~ForwardReachable(causal_links, fp_source, fp_target) => fp.result = <<>>
        /\ (fp_source \notin AnchorIds(anchors) \/ fp_target \notin AnchorIds(anchors))
               => fp.result = <<>>

\* no node has had its links scanned twice
NoNodeExpandedTwice == NoRepeat(fp.expanded)

\* C8: find_path terminates for every pair of ids on every finite link list,
\* cycles and self-loops included: no node is expanded more than once, and the
\* call eventually returns.
C8_ExpandsOnceAndTerminates ==
    [](NoNodeExpandedTwice) /\ <>(fp.pc = "done")

\* a search that went round a cycle through its source returned (empty-handed)
C8_Witness ==
    /\ fp.pc = "done"
    /\ fp.result = <<>>
    /\ Len(fp.expanded) >= 2
    /\ \E i \in 1..Len(causal_links) :
           /\ causal_links[i].source_id \in fp.visited \ {fp_source}
           /\ causal_links[i].target_id = fp_source

(***************************************************************************)
(* logic_engine.py: TemporalLogicEngine.check_causality.  paradox_risk is  *)
(* in hundredths: a magnitude in tenths times 0.3.                         *)
(***************************************************************************)
\* the loop over self.causal_links that adds up paradox_risk
RECURSIVE PathParadoxRisk(_, _)
PathParadoxRisk(links, path) ==
    IF links = <<>> THEN 0
    ELSE (IF InSeq(Head(links).source_id, path) /\ Head(links).effect_type = "negative"
          THEN Head(links).magnitude * 3 ELSE 0)
         + PathParadoxRisk(Tail(links), path)

\* chain_length counts the links of the path, as the description text words it
check_causality_CountLinks(anchorSeq, links, source_era, target_era) ==
    LET source_anchors == SelectSeq(anchorSeq, LAMBDA a : a.era = source_era)
        target_anchors == SelectSeq(anchorSeq, LAMBDA a : a.era = target_era)
    IN  IF source_anchors = <<>> \/ target_anchors = <<>>
        THEN [valid |-> FALSE, reason |-> "Era not found in timeline"]
        ELSE LET path == _find_causal_path(links, source_anchors[1].id,
                                           target_anchors[1].id)
             IN  [valid |-> Len(path) > 0,
                  path |-> path,
                  paradox_risk |-> Min(PathParadoxRisk(links, path), 100),
                  chain_length |-> Max(0, Len(path) - 1),
                  description |-> [source_era |-> source_era,
                                   target_era |-> target_era, links |-> Len(path)]]

\* the sum is returned without the clamp to 1.0
check_causality_NoClamp(anchorSeq, links, source_era, target_era) ==
    LET source_anchors == SelectSeq(anchorSeq, LAMBDA a : a.era = source_era)
        target_anchors == SelectSeq(anchorSeq, LAMBDA a : a.era = target_era)
    IN  IF source_anchors = <<>> \/ target_anchors = <<>>
        THEN [valid |-> FALSE, reason |-> "Era not found in timeline"]
        ELSE LET path == _find_causal_path(links, source_anchors[1].id,
                                           target_anchors[1].id)
             IN  [valid |-> Len(path) > 0,
                  path |-> path,
                  paradox_risk |-> PathParadoxRisk(links, path),
                  chain_length |-> Len(path),
                  description |-> [source_era |-> source_era,
                                   target_era |-> target_era, links |-> Len(path)]]

check_causality(anchorSeq, links, source_era, target_era) ==
    LET source_anchors == SelectSeq(anchorSeq, LAMBDA a : a.era = source_era)
        target_anchors == SelectSeq(anchorSeq, LAMBDA a : a.era = target_era)
    IN  IF source_anchors = <<>> \/ target_anchors = <<>>
        THEN [valid |-> FALSE, reason |-> "Era not found in timeline"]
        ELSE LET path == _find_causal_path(links, source_anchors[1].id,
                                           target_anchors[1].id)
             IN  [valid |-> Len(path) > 0,
                  path |-> path,
                  paradox_risk |-> Min(PathParadoxRisk(links, path), 100),
                  chain_length |-> Len(path),
                  description |-> [source_era |-> source_era,
                                   target_era |-> target_era, links |-> Len(path)]]

(***************************************************************************)
(* Inputs of the causality runs                                            *)
(***************************************************************************)
\* an era name that no anchor has
UnknownEra == "Atlantis"

Eras == {default_anchors[i].era : i \in 1..Len(default_anchors)} \cup {UnknownEra}

\* the seeded links, those at the positions in S made negative with magnitude 1.0
WithNegative(S) ==
    [i \in 1..Len(default_links) |->
        IF i \in S
        THEN Link(default_links[i].source_id, default_links[i].target_id, "negative", 10)
        ELSE default_links[i]]

LinkVariants == {WithNegative(S) : S \in SUBSET (1..Len(default_links))}

(***************************************************************************)
(* SpecCausality: one check_causality call on the seeded anchors, the      *)
(* links seeded or with some polarities and magnitudes changed             *)
(***************************************************************************)
PathOff == fp_source = None /\ fp_target = None /\ fp = None

InitCausality ==
    /\ FilterOff
    /\ EngineOff
    /\ GuardrailsNew
    /\ PathOff
    /\ anchors = default_anchors
    /\ causal_links \in LinkVariants
    /\ cc_pc = "ready"
    /\ cc_call \in [source_era : Eras, target_era : Eras]
    /\ cc_ret = None

CheckCausalityCall ==
    /\ cc_pc = "ready"
    /\ cc_ret' = check_causality(anchors, causal_links,
                                 cc_call.source_era, cc_call.target_era)
    /\ cc_pc' = "done"
    /\ UNCHANGED <<cc_call, graphVars, pathVars, filterVars, guardVars, engineVars, threadVars, appVars>>

NextCausality == CheckCausalityCall

SpecCausality == InitCausality /\ [][NextCausality]_vars

(***************************************************************************)
(* Claims on the causality runs (SpecCausality)                            *)
(***************************************************************************)
\* the positions of the anchors of an era
EraPositions(era) == {i \in 1..Len(anchors) : anchors[i].era = era}

\* the id of the first anchor of an era that has one
FirstAnchorId(era) ==
    anchors[CHOOSE i \in EraPositions(era) : \A j \in EraPositions(era) : i <= j].id

\* C9: check_causality returns a structured result and never raises: valid
\* false with a reason if either era name matches no anchor; otherwise valid
\* true exactly when a forward path exists from the source era's anchor to the
\* target era's anchor, path being that path and chain_length the number of
\* anchors in path (an unreachable pair: valid false, empty path, length 0).
C9_ValidIffForwardPath ==
    cc_pc = "done" =>
        /\ "valid" \in DOMAIN cc_ret
        /\ cc_ret.valid \in BOOLEAN
        /\ IF EraPositions(cc_call.source_era) = {} \/ EraPositions(cc_call.target_era) = {}
           THEN cc_ret.valid = FALSE /\ "reason" \in DOMAIN cc_ret
           ELSE LET source_id == FirstAnchorId(cc_call.source_era)
                    target_id == FirstAnchorId(cc_call.target_era)
                    path == cc_ret.path
                IN  /\ cc_ret.valid <=> ForwardReachable(causal_links, source_id, target_id)
                    /\ cc_ret.valid =>
                           /\ path[1] = source_id
                           /\ path[Len(path)] = target_id
                           /\ IsForwardPath(causal_links, path)
                    /\ ~cc_ret.valid => path = <<>>
                    /\ cc_ret.chain_length = Len(path)

\* two known eras with no forward path between them: invalid, empty, length 0
C9_Witness ==
    /\ cc_pc = "done"
    /\ cc_call = [source_era |-> "Cyberpunk", target_era |-> "Dark Ages"]
    /\ cc_ret.valid = FALSE
    /\ cc_ret.path = <<>>
    /\ cc_ret.chain_length = 0

\* the sum of f over the finite set S
RECURSIVE SumOver(_, _)
SumOver(S, f) ==
    IF S = {} THEN 0
    ELSE LET x == CHOOSE y \in S : TRUE IN f[x] + SumOver(S \ {x}, f)

\* magnitude * 0.3 summed over the negative links that leave an anchor of path
NegativeLinkRisk(links, path) ==
    LET hits == {i \in 1..Len(links) :
                    links[i].effect_type = "negative" /\ InSeq(links[i].source_id, path)}
    IN  SumOver(hits, [i \in hits |-> 3 * links[i].magnitude])

\* C10: the paradox_risk check_causality reports is min(1.0, the sum of
\* magnitude*0.3 over every negative link whose source anchor is on the
\* returned path); it lies in [0,1] and is 0 when the path is empty.
C10_ParadoxRiskIsClampedSum ==
    (cc_pc = "done" /\ "path" \in DOMAIN cc_ret) =>
        /\ cc_ret.paradox_risk = Min(100, NegativeLinkRisk(causal_links, cc_ret.path))
        /\ cc_ret.paradox_risk \in 0..100
        /\ cc_ret.path = <<>> => cc_ret.paradox_risk = 0

\* a path whose anchors emit negative links worth more than 1.0: reported as 1.0
C10_Witness ==
    /\ cc_pc = "done"
    /\ "path" \in DOMAIN cc_ret
    /\ cc_ret.valid
    /\ NegativeLinkRisk(causal_links, cc_ret.path) > 100
    /\ cc_ret.paradox_risk = 100

(***************************************************************************)
(* logic_engine.py: TemporalLogicEngine.  The engine (self) is the record  *)
(* of its fields.  butterfly_index is in millionths of a point, a paradox  *)
(* risk in millionths; round(x, 1) of the index is in tenths, round(x, 3)  *)
(* of a risk in thousandths.                                               *)
(***************************************************************************)
\* round(x / d) to the nearest integer, ties to even (Python's round)
RoundDiv(x, d) ==
    LET q == x \div d
        r == x % d
    IN  IF 2 * r > d \/ (2 * r = d /\ q % 2 = 1) THEN q + 1 ELSE q

Branch(id, name, divergence_point, probability, is_primary) ==
    [id |-> id, name |-> name, divergence_point |-> divergence_point,
     probability |-> probability, is_primary |-> is_primary, world_state |-> <<>>]

\* self.branches of _seed_timeline, in insertion order; probability in tenths
default_branches ==
    << Branch("primary", "Alpha Timeline", "n1", 7, TRUE),
       Branch("b7", "Branch B-7 (Cyberpunk)", "n6", 3, FALSE) >>

INITIAL_BUTTERFLY_INDEX == 50000000

\* TemporalLogicEngine.__init__: has_client tells whether a client was built
NewEngine(has_client) ==
    [anchors |-> default_anchors, causal_links |-> default_links,
     branches |-> default_branches, butterfly_index |-> INITIAL_BUTTERFLY_INDEX,
     action_history |-> <<>>, client |-> has_client]

save_words ==
    << <<"s","a","v","e">>, <<"p","r","o","t","e","c","t">>, <<"w","a","r","n">>,
       <<"h","e","l","p">>, <<"r","e","s","c","u","e">> >>
destroy_words ==
    << <<"d","e","s","t","r","o","y">>, <<"k","i","l","l">>,
       <<"d","e","l","e","t","e">>, <<"r","e","m","o","v","e">>, <<"s","t","o","p">> >>
change_words ==
    << <<"c","h","a","n","g","e">>, <<"a","l","t","e","r">>,
       <<"m","o","d","i","f","y">>, <<"m","o","v","e">>, <<"t","r","a","v","e","l">> >>

\* any(w in cmd_lower for w in words)
AnyWordIn(words, cmd_lower) ==
    \E i \in 1..Len(words) : Contains(cmd_lower, words[i])

\* random.uniform(a, b) = a + (b - a) * u, for a, b in thousandths and the
\* draw u of random.random() in thousandths (0..999); the result in millionths
Uniform(a, b, u) == a * 1000 + (b - a) * u

\* the jitter of a destroy command is drawn from a range too wide
ProceduralRisk_WideJitter(is_save, is_destroy, is_change, u) ==
    IF is_destroy THEN 500000 + Uniform(100, 400, u)
    ELSE IF is_change THEN 300000 + Uniform(50, 200, u)
    ELSE IF is_save THEN 100000 + Uniform(50, 150, u)
    ELSE 200000 + Uniform(0, 100, u)

\* a change command is given the risk of a destroy command
ProceduralRisk_ChangeAsDestroy(is_save, is_destroy, is_change, u) ==
    IF is_destroy \/ is_change THEN 500000 + Uniform(100, 300, u)
    ELSE IF is_save THEN 100000 + Uniform(50, 150, u)
    ELSE 200000 + Uniform(0, 100, u)

\* lines 291-299: the base paradox risk, in millionths
ProceduralRisk(is_save, is_destroy, is_change, u) ==
    IF is_destroy THEN 500000 + Uniform(100, 300, u)
    ELSE IF is_change THEN 300000 + Uniform(50, 200, u)
    ELSE IF is_save THEN 100000 + Uniform(50, 150, u)
    ELSE 200000 + Uniform(0, 100, u)

\* next((a for a in self.anchors.values() if a.era == era), None), as the
\* position of that anchor, 0 for None
EraAnchor(anchorSeq, era) ==
    IF \E i \in 1..Len(anchorSeq) : anchorSeq[i].era = era
    THEN CHOOSE i \in 1..Len(anchorSeq) :
             /\ anchorSeq[i].era = era
             /\ \A j \in 1..(i - 1) : anchorSeq[j].era # era
    ELSE 0

\* self.anchors.get(id), as the position of that anchor, 0 for None
AnchorGet(anchorSeq, id) ==
    IF \E i \in 1..Len(anchorSeq) : anchorSeq[i].id = id
    THEN CHOOSE i \in 1..Len(anchorSeq) : anchorSeq[i].id = id
    ELSE 0

\* lines 305-309: the loop over self.causal_links from link i on
RECURSIVE AffectedFrom(_, _, _, _, _)
AffectedFrom(anchorSeq, links, source_id, i, affected_eras) ==
    IF i > Len(links) THEN affected_eras
    ELSE LET link == links[i]
             target == AnchorGet(anchorSeq, link.target_id)
             hit == /\ link.source_id = source_id
                    /\ target # 0
                    /\ ~InSeq(anchorSeq[target].era, affected_eras)
         IN  AffectedFrom(anchorSeq, links, source_id, i + 1,
                          IF hit THEN Append(affected_eras, anchorSeq[target].era)
                          ELSE affected_eras)

\* lines 302-309
AffectedEras(anchorSeq, links, era) ==
    LET era_anchor == EraAnchor(anchorSeq, era)
    IN  IF era_anchor = 0 THEN <<era>>
        ELSE AffectedFrom(anchorSeq, links, anchorSeq[era_anchor].id, 1, <<era>>)

\* a generated line: the template it was formatted from and the value put in
Line(template, arg) == [template |-> template, arg |-> arg]

PARADOX_WARNING == Line("PARADOX WARNING: Causal loop approaching gridlock threshold", None)

_generate_narratives(command, era, affected, is_save, is_destroy) ==
    IF is_save
    THEN <<Line("Action in {era}: A life is preserved. The timeline shifts.", era)>>
         \o (IF InSeq("Cyberpunk", affected)
             THEN <<Line("2847 AD: Neo-Kyoto's architecture evolves", None)>> ELSE <<>>)
         \o (IF InSeq("Neo Age", affected)
             THEN <<Line("2200 AD: Colony resources redistribute based on new lineage", None)>>
             ELSE <<>>)
    ELSE IF is_destroy
    THEN <<Line("Action in {era}: Destruction ripples forward. Stability drops.", era)>>
         \o (IF InSeq("Digital", affected)
             THEN <<Line("2024 AD: The Singularity event accelerates unpredictably", None)>>
             ELSE <<>>)
         \o (IF InSeq("Cyberpunk", affected)
             THEN <<Line("2847 AD: Neo-Kyoto descends further into dystopia", None)>>
             ELSE <<>>)
    ELSE << Line("Action in {era}: The timeline adjusts to accommodate changes", era),
            Line("Temporal flux detected across {n} eras", Len(affected)) >>

\* the triggering era's stability always goes up
WorldDelta_AlwaysPositive(affected_eras, era, is_destroy, deltas) ==
    [affected_era \in {affected_eras[i] : i \in 1..Len(affected_eras)} |->
        IF affected_era = era
        THEN [stability_change |-> 3]
        ELSE LET i == CHOOSE k \in 1..Len(affected_eras) :
                          affected_eras[k] = affected_era
             IN  deltas[((i - 2) % Len(deltas)) + 1]]

\* lines 315-323: deltas are the successive results of random.randint(-10, 5)
\* and random.choice([-1, 0, 0, 1]), one pair per era other than the triggering one
WorldDelta(affected_eras, era, is_destroy, deltas) ==
    [affected_era \in {affected_eras[i] : i \in 1..Len(affected_eras)} |->
        IF affected_era = era
        THEN [stability_change |-> IF is_destroy THEN -5 ELSE 3]
        ELSE LET i == CHOOSE k \in 1..Len(affected_eras) :
                          affected_eras[k] = affected_era
             IN  deltas[((i - 2) % Len(deltas)) + 1]]

\* narratives[:3]
FirstThree(narratives) == SubSeq(narratives, 1, Min(3, Len(narratives)))

\* the butterfly_index assignment of line 326 without the floor at 0 and the cap
\* at 100
ProceduralIndex_NoClamp(index, paradox_risk) == index + paradox_risk * 12

\* the risk is taken off the index
ProceduralIndex_Subtracts(index, paradox_risk) ==
    Min(100000000, Max(0, index - paradox_risk * 12))

\* line 326: min(100, max(0, self.butterfly_index + paradox_risk * 12))
ProceduralIndex(index, paradox_risk) ==
    Min(100000000, Max(0, index + paradox_risk * 12))

\* the paradox is marked on the era's anchor and on every anchor seeded after it
StatusAfter_MarksDownstream(anchorSeq, era_anchor, is_paradox) ==
    IF is_paradox /\ era_anchor # 0
    THEN [i \in 1..Len(anchorSeq) |->
             IF i >= era_anchor THEN [anchorSeq[i] EXCEPT !.status = "paradox"]
             ELSE anchorSeq[i]]
    ELSE anchorSeq

\* an anchor whose command stayed under the threshold is set back to stable
StatusAfter_Recovers(anchorSeq, era_anchor, is_paradox) ==
    IF era_anchor = 0 THEN anchorSeq
    ELSE [anchorSeq EXCEPT ![era_anchor].status =
              IF is_paradox THEN "paradox" ELSE "stable"]

\* lines 330-331: the anchors after "if is_paradox and era_anchor:
\* era_anchor.status = 'paradox'"
StatusAfter(anchorSeq, era_anchor, is_paradox) ==
    IF is_paradox /\ era_anchor # 0
    THEN [anchorSeq EXCEPT ![era_anchor].status = "paradox"]
    ELSE anchorSeq

\* the engine after the call (self) and the dict returned (ret); draw holds the
\* random numbers the call consumes
_procedural_reason(self, command, era, action_id, draw) ==
    LET cmd_lower == Lower(command)
        is_save == AnyWordIn(save_words, cmd_lower)
        is_destroy == AnyWordIn(destroy_words, cmd_lower)
        is_change == AnyWordIn(change_words, cmd_lower)
        paradox_risk == ProceduralRisk(is_save, is_destroy, is_change, draw.u)
        era_anchor == EraAnchor(self.anchors, era)
        affected_eras == AffectedEras(self.anchors, self.causal_links, era)
        generated == _generate_narratives(command, era, affected_eras, is_save, is_destroy)
        world_delta == WorldDelta(affected_eras, era, is_destroy, draw.deltas)
        index == ProceduralIndex(self.butterfly_index, paradox_risk)
        is_paradox == paradox_risk > 700000
        marked == is_paradox /\ era_anchor # 0
        narratives == IF marked THEN Append(generated, PARADOX_WARNING) ELSE generated
        effect == [source_action |-> command,
                   affected_eras |-> affected_eras,
                   paradox_risk |-> RoundDiv(paradox_risk, 1000),
                   narrative_changes |-> narratives,
                   world_state_delta |-> world_delta]
        echo == << Line("Processing temporal command: {command}", command),
                   Line("Scanning {n} affected era(s)...", Len(affected_eras)) >>
                \o FirstThree(narratives)
                \o << Line("Butterfly Index updated: {x}%", RoundDiv(index, 100000)) >>
    IN  [self |-> [self EXCEPT
                       !.butterfly_index = index,
                       !.anchors = StatusAfter(@, era_anchor, is_paradox)],
         ret  |-> [action_id |-> action_id,
                   command |-> command,
                   source |-> "procedural_engine",
                   butterfly_effect |-> effect,
                   butterfly_index |-> RoundDiv(index, 100000),
                   echo_messages |-> echo,
                   is_paradox |-> is_paradox]]

(***************************************************************************)
(* The oracle's answer to generate_content, as _gemini_reason sees it:     *)
(*   [kind |-> "raise"]            the call raises                         *)
(*   [kind |-> "text"]             response.text is not JSON               *)
(*   [kind |-> "json", value |-> v] json.loads(response.text) gives v:     *)
(*       [type |-> "list"], or [type |-> "dict", fields |-> f] with f a    *)
(*       record of the keys present.  A paradox_risk is                    *)
(*       [type |-> "number", value |-> thousandths] or [type |-> "string"] *)
(***************************************************************************)
\* result.get(key, default)
Get(result, key, default) ==
    IF key \in DOMAIN result THEN result[key] ELSE default

DEFAULT_ORACLE_RISK == [type |-> "number", value |-> 200]

\* lines 253-278, given the response of lines 243-251.  raised: an exception
\* left the method (then self is as it was on entry)
_gemini_reason(self, command, era, action_id, response, draw) ==
    IF response.kind = "raise" THEN [raised |-> TRUE]
    ELSE IF response.kind = "text"
    THEN [raised |-> FALSE] @@ _procedural_reason(self, command, era, action_id, draw)
    ELSE IF response.value.type # "dict" THEN [raised |-> TRUE]
    ELSE LET result == response.value.fields
             paradox_risk == Get(result, "paradox_risk", DEFAULT_ORACLE_RISK)
         IN  IF paradox_risk.type # "number" THEN [raised |-> TRUE]
             ELSE LET index == Min(100000000,
                                   self.butterfly_index + paradox_risk.value * 15000)
                  IN  [raised |-> FALSE,
                       self |-> [self EXCEPT !.butterfly_index = index],
                       ret  |-> [action_id |-> action_id,
                                 command |-> command,
                                 source |-> "gemini_deep_think",
                                 butterfly_effect |->
                                     [source_action |-> command,
                                      affected_eras |->
                                          Get(result, "affected_eras", <<era>>),
                                      paradox_risk |-> paradox_risk.value,
                                      narrative_changes |->
                                          Get(result, "narrative_changes", <<>>),
                                      world_state_delta |->
                                          Get(result, "world_state_delta", <<>>)],
                                 butterfly_index |-> RoundDiv(index, 100000),
                                 echo_messages |->
                                     Get(result, "narrative_changes",
                                         << Line("Analyzing temporal ripples from: {command}",
                                                 command),
                                            Line("Gemini Deep Think: causality verified",
                                                 None) >>)]]

\* the entry is put at the front of the history
RecordAction_Prepend(self, command, current_era, now1, now2) ==
    LET action_id == <<command, now1>>
    IN  [action_id |-> action_id,
         self |-> [self EXCEPT !.action_history =
                       <<[id |-> action_id, command |-> command,
                          era |-> current_era, timestamp |-> now2]>> \o @]]

\* lines 160-168: the id is the hash of the command and the first clock
\* reading, kept as that pair; the entry is stamped with the second reading
RecordAction(self, command, current_era, now1, now2) ==
    LET action_id == <<command, now1>>
    IN  [action_id |-> action_id,
         self |-> [self EXCEPT !.action_history =
                       Append(@, [id |-> action_id, command |-> command,
                                  era |-> current_era, timestamp |-> now2])]]

\* the fallback runs on the engine a first procedural pass has left
Reason_AppliesTwice(self, command, current_era, action_id, response, draw) ==
    LET procedural == _procedural_reason(self, command, current_era, action_id, draw)
    IN  IF self.client
        THEN LET oracle == _gemini_reason(self, command, current_era, action_id,
                                          response, draw)
             IN  IF oracle.raised
                 THEN _procedural_reason(procedural.self, command, current_era,
                                         action_id, draw)
                 ELSE [self |-> oracle.self, ret |-> oracle.ret]
        ELSE procedural

\* lines 170-178, given the oracle's response (unused without a client)
Reason(self, command, current_era, action_id, response, draw) ==
    LET procedural == _procedural_reason(self, command, current_era, action_id, draw)
    IN  IF self.client
        THEN LET oracle == _gemini_reason(self, command, current_era, action_id,
                                          response, draw)
             IN  IF oracle.raised THEN procedural
                 ELSE [self |-> oracle.self, ret |-> oracle.ret]
        ELSE procedural

\* lines 155-178
process_command(self, command, current_era, now1, now2, response, draw) ==
    LET recorded == RecordAction(self, command, current_era, now1, now2)
    IN  Reason(recorded.self, command, current_era, recorded.action_id, response, draw)

\* the write-back variant: the rounded index is stored in the engine
get_timeline_state_StoresRounded(self) ==
    [self |-> [self EXCEPT !.butterfly_index = RoundDiv(@, 100000) * 100000],
     ret  |-> [anchors |-> self.anchors,
               branches |-> self.branches,
               butterfly_index |-> RoundDiv(self.butterfly_index, 100000),
               active_branch |->
                   IF \E i \in 1..Len(self.branches) : self.branches[i].is_primary
                   THEN self.branches[CHOOSE i \in 1..Len(self.branches) :
                            /\ self.branches[i].is_primary
                            /\ \A j \in 1..(i - 1) : ~self.branches[j].is_primary].name
                   ELSE "Alpha Timeline",
               total_actions |-> Len(self.action_history)]]

get_timeline_state(self) ==
    [self |-> self,
     ret  |-> [anchors |-> self.anchors,
               branches |-> self.branches,
               butterfly_index |-> RoundDiv(self.butterfly_index, 100000),
               active_branch |->
                   IF \E i \in 1..Len(self.branches) : self.branches[i].is_primary
                   THEN self.branches[CHOOSE i \in 1..Len(self.branches) :
                            /\ self.branches[i].is_primary
                            /\ \A j \in 1..(i - 1) : ~self.branches[j].is_primary].name
                   ELSE "Alpha Timeline",
               total_actions |-> Len(self.action_history)]]

(***************************************************************************)
(* Inputs of the engine calls                                              *)
(***************************************************************************)
MaxCommands == 2
MaxOracleCommands == 1

\* "Kill the king" (a destroy command) and "Look" (no intent keyword)
EngineCommands ==
    { <<"K","i","l","l"," ","t","h","e"," ","k","i","n","g">>,
      <<"L","o","o","k">> }

\* an era with one outgoing link, an era with two, and an era of no anchor
EngineEras == {"Dark Ages", "Renaissance", UnknownEra}

\* what the two datetime.utcnow() readings of a call add to the reading before
ClockAdvances == { <<0, 0>>, <<1, 1>> }

\* the random numbers of one procedural call: u of random.random() in
\* thousandths, deltas the (randint, choice) pairs
Draws ==
    { [u |-> 500, deltas |-> << [stability_change |-> 5, tech_level_shift |-> 1],
                                [stability_change |-> -10, tech_level_shift |-> -1] >>],
      [u |-> 999, deltas |-> << [stability_change |-> -10, tech_level_shift |-> -1],
                                [stability_change |-> 0, tech_level_shift |-> 0] >> ] }

Number(v) == [type |-> "number", value |-> v]
Dict(fields) == [kind |-> "json", value |-> [type |-> "dict", fields |-> fields]]
ORACLE_LINE == Line("The monks seal the rift", None)

\* answers of the oracle to a command in era: failures, a well-formed answer,
\* an empty object, and answers with one field out of its range
OracleResponses(era) ==
    { [kind |-> "raise"],
      [kind |-> "text"],
      [kind |-> "json", value |-> [type |-> "list"]],
      Dict([paradox_risk |-> [type |-> "string"],
            affected_eras |-> <<era>>]),
      Dict([affected_eras |-> <<era, "Medieval">>,
            paradox_risk |-> Number(400),
            narrative_changes |-> <<ORACLE_LINE>>,
            world_state_delta |-> [Medieval |-> [stability_change |-> 2]]]),
      Dict(<<>>),
      Dict([paradox_risk |-> Number(5000)]),
      Dict([paradox_risk |-> Number(-10000)]),
      Dict([paradox_risk |-> Number(300), affected_eras |-> <<>>]) }

EnginePairs == { <<"Dark Ages", "Renaissance">> }

(***************************************************************************)
(* Specification SpecEngine: one caller at a time uses an engine built     *)
(* with or without an oracle client.  With a client, process_command runs  *)
(* up to the generate_content request, waits for the oracle's service, and *)
(* runs on from the response.                                              *)
(***************************************************************************)
Engine ==
    [anchors |-> anchors, causal_links |-> causal_links, branches |-> branches,
     butterfly_index |-> engine_butterfly_index,
     action_history |-> action_history, client |-> client]

\* the engine's fields become those of self
EngineBecomes(self) ==
    /\ anchors' = self.anchors
    /\ causal_links' = self.causal_links
    /\ branches' = self.branches
    /\ engine_butterfly_index' = self.butterfly_index
    /\ action_history' = self.action_history
    /\ client' = self.client

InitEngine ==
    /\ \E has_client \in BOOLEAN :
           /\ anchors = NewEngine(has_client).anchors
           /\ causal_links = NewEngine(has_client).causal_links
           /\ branches = NewEngine(has_client).branches
           /\ engine_butterfly_index = NewEngine(has_client).butterfly_index
           /\ action_history = NewEngine(has_client).action_history
           /\ client = NewEngine(has_client).client
    /\ clock = 0
    /\ en_pc = "idle"
    /\ en_call = None
    /\ en_ret = None
    /\ timeline_seen = None
    /\ process_command_calls = 0
    /\ th = <<>>
    /\ limiter_log = <<>>
    /\ AppOff
    /\ FilterOff
    /\ GuardrailsNew
    /\ PathOff
    /\ CausalityOff

\* process_command on an engine without a client
ProcessCommand ==
    \E command \in EngineCommands, era \in EngineEras,
       advance \in ClockAdvances, draw \in Draws :
        LET now1 == clock + advance[1]
            now2 == now1 + advance[2]
            r == process_command(Engine, command, era, now1, now2, None, draw)
        IN  /\ en_pc = "idle"
            /\ ~client
            /\ process_command_calls < MaxCommands
            /\ EngineBecomes(r.self)
            /\ clock' = now2
            /\ process_command_calls' = process_command_calls + 1
            /\ en_call' = [op |-> "process_command", command |-> command, era |-> era,
                           response |-> None, before |-> engine_butterfly_index]
            /\ en_ret' = r.ret
            /\ timeline_seen' = None
            /\ UNCHANGED <<en_pc, filterVars, guardVars, pathVars, causalityVars, threadVars, appVars>>

\* process_command on an engine with a client, up to the request of line 243
CallOracle ==
    \E command \in EngineCommands, era \in EngineEras, advance \in ClockAdvances :
        LET now1 == clock + advance[1]
            now2 == now1 + advance[2]
            recorded == RecordAction(Engine, command, era, now1, now2)
        IN  /\ en_pc = "idle"
            /\ client
            /\ process_command_calls < MaxOracleCommands
            /\ EngineBecomes(recorded.self)
            /\ clock' = now2
            /\ process_command_calls' = process_command_calls + 1
            /\ en_pc' = "oracle"
            /\ en_call' = [op |-> "process_command", command |-> command, era |-> era,
                           response |-> None, before |-> engine_butterfly_index]
            /\ en_ret' = None
            /\ timeline_seen' = None
            /\ UNCHANGED <<filterVars, guardVars, pathVars, causalityVars, threadVars, appVars>>

\* the oracle's service answers the request: generate_content has a
\* response to return or an error to raise
OracleAnswers ==
    /\ en_pc = "oracle"
    /\ \E response \in OracleResponses(en_call.era) :
           /\ en_pc' = "answered"
           /\ en_call' = [en_call EXCEPT !.response = response]
           /\ UNCHANGED <<graphVars, branches, engine_butterfly_index, action_history,
                          client, clock, en_ret, process_command_calls, timeline_seen,
                          filterVars, guardVars, pathVars, causalityVars,
                       threadVars, appVars>>

\* process_command runs from the return of generate_content to its end
FinishCommand ==
    /\ en_pc = "answered"
    /\ \E draw \in Draws :
           LET action_id == action_history[Len(action_history)].id
               r == Reason(Engine, en_call.command, en_call.era, action_id,
                           en_call.response, draw)
           IN  /\ EngineBecomes(r.self)
               /\ en_pc' = "idle"
               /\ en_ret' = r.ret
               /\ UNCHANGED <<clock, en_call, process_command_calls, timeline_seen,
                              filterVars, guardVars, pathVars, causalityVars,
                       threadVars, appVars>>

GetTimelineState ==
    LET r == get_timeline_state(Engine)
    IN  /\ en_pc = "idle"
        /\ EngineBecomes(r.self)
        /\ en_call' = [op |-> "get_timeline_state"]
        /\ en_ret' = r.ret
        /\ timeline_seen' = [ret |-> r.ret,
                             calls |-> IF timeline_seen = None THEN 1 ELSE 2]
        /\ UNCHANGED <<clock, en_pc, process_command_calls,
                       filterVars, guardVars, pathVars, causalityVars,
                       threadVars, appVars>>

EngineCheckCausality ==
    \E pair \in EnginePairs :
        /\ en_pc = "idle"
        /\ en_call' = [op |-> "check_causality", source_era |-> pair[1],
                       target_era |-> pair[2]]
        /\ en_ret' = check_causality(anchors, causal_links, pair[1], pair[2])
        /\ UNCHANGED <<graphVars, branches, engine_butterfly_index, action_history,
                       client, clock, en_pc, process_command_calls, timeline_seen,
                       filterVars, guardVars, pathVars, causalityVars,
                       threadVars, appVars>>

NextEngine ==
    \/ ProcessCommand
    \/ CallOracle
    \/ OracleAnswers
    \/ FinishCommand
    \/ GetTimelineState
    \/ EngineCheckCausality

SpecEngine == InitEngine /\ [][NextEngine]_vars

\* the engine's own step is taken when it can be; nothing makes the oracle's
\* service answer
SpecEngineLive == SpecEngine /\ WF_vars(FinishCommand)

(***************************************************************************)
(* Claims on the engine calls (SpecEngine)                                 *)
(***************************************************************************)
\* the name of the operation a call record is of
OpOf(call) == IF call = None THEN "none" ELSE call.op

\* the last engine call was process_command and it has returned
CommandReturned == OpOf(en_call) = "process_command" /\ en_pc = "idle"

\* C11: in every reachable state, after any sequence of process_command
\* calls on the oracle path or the procedural path and whatever paradox_risk
\* the oracle returns, butterfly_index lies within [0, 100].
C11_ButterflyIndexInRange ==
    engine_butterfly_index \in 0..100000000

Severity(status) ==
    CASE status = "stable" -> 0
      [] status = "shifting" -> 1
      [] status = "paradox" -> 2

\* C13: every change of an anchor's status moves forward in the order
\* stable, shifting, paradox: no step takes an anchor to a less severe
\* status, so a paradox anchor stays paradox and a shifting anchor never
\* becomes stable.
C13_StatusNeverRegresses ==
    [][ /\ Len(anchors') = Len(anchors)
        /\ \A i \in 1..Len(anchors) :
               /\ anchors'[i].status \in {"stable", "shifting", "paradox"}
               /\ Severity(anchors'[i].status) >= Severity(anchors[i].status) ]_vars

\* the anchor seeded stable (Dark Ages) and the anchor seeded shifting
\* (Renaissance) have both been made paradox by commands
C13_Witness ==
    /\ process_command_calls = 2
    /\ default_anchors[1].status = "stable"
    /\ default_anchors[3].status = "shifting"
    /\ anchors[1].status = "paradox"
    /\ anchors[3].status = "paradox"

\* the eras of the targets of the outgoing links of era's anchor, in link order
OutgoingEras(era) ==
    LET era_anchor == EraAnchor(anchors, era)
        outgoing == IF era_anchor = 0 THEN <<>>
                    ELSE SelectSeq(causal_links,
                                   LAMBDA l : l.source_id = anchors[era_anchor].id)
    IN  [i \in 1..Len(outgoing) |->
            anchors[AnchorGet(anchors, outgoing[i].target_id)].era]

\* C14: every ButterflyEffect returned by process_command, on the oracle path
\* and on the procedural path, for known and unknown eras, has a non-empty
\* affected_eras whose first element is the triggering era; on the procedural
\* path the list has no duplicates and the rest of it is the eras of the
\* targets of the outgoing links of the era's anchor, in link order.
C14_AffectedErasStartWithEra ==
    CommandReturned =>
        LET affected_eras == en_ret.butterfly_effect.affected_eras
        IN  /\ Len(affected_eras) > 0
            /\ affected_eras[1] = en_call.era
            /\ en_ret.source = "procedural_engine" =>
                   /\ NoRepeat(affected_eras)
                   /\ Tail(affected_eras) = OutgoingEras(en_call.era)

\* the oracle's answer is an object with the four keys, a paradox_risk that is
\* a number in [0, 1] and an affected_eras that contains the era
WellFormed(response, era) ==
    /\ response.kind = "json"
    /\ response.value.type = "dict"
    /\ {"affected_eras", "paradox_risk", "narrative_changes", "world_state_delta"}
           \subseteq DOMAIN response.value.fields
    /\ response.value.fields.paradox_risk.type = "number"
    /\ response.value.fields.paradox_risk.value \in 0..1000
    /\ InSeq(era, response.value.fields.affected_eras)

\* C17: with an oracle configured, any oracle failure (an exception,
\* unparsable output, a missing or wrongly typed field, a value outside its
\* range such as a paradox_risk outside [0,1] or an affected_eras without
\* the era) makes process_command return the procedural result: nothing is
\* raised to the caller and the oracle's values are not used.
C17_OracleFailureFallsBack ==
    (CommandReturned /\ client /\ ~WellFormed(en_call.response, en_call.era)) =>
        en_ret.source = "procedural_engine"

\* C18: every process_command call eventually returns: if the oracle never
\* responds, the call still completes (by a timeout and the procedural path).
C18_CommandEventuallyReturns ==
    (en_pc = "oracle") ~> (en_pc = "idle")

\* the engine's state: anchors, links, branches, butterfly_index, history
engineState ==
    <<anchors, causal_links, branches, engine_butterfly_index, action_history, client>>

\* C19: get_timeline_state and check_causality leave the whole engine state
\* unchanged, and a get_timeline_state call returns what the get_timeline_state
\* call before it returned when no process_command came between them.
C19_QueriesChangeNothing ==
    [][ OpOf(en_call') \in {"get_timeline_state", "check_causality"} =>
            /\ engineState' = engineState
            /\ (OpOf(en_call') = "get_timeline_state" /\ timeline_seen # None) =>
                   en_ret' = timeline_seen.ret ]_vars

\* get_timeline_state has run again, after a check_causality, on an engine
\* whose butterfly_index is not a whole number of tenths
C19_Witness ==
    /\ OpOf(en_call) = "get_timeline_state"
    /\ timeline_seen # None
    /\ timeline_seen.calls = 2
    /\ process_command_calls > 0
    /\ engine_butterfly_index % 100000 # 0

\* C20: each process_command invocation appends exactly one entry, carrying
\* its command and era, to the end of the action history whichever path
\* computes the effect; no other step touches the history; total_actions of
\* get_timeline_state is the number of invocations so far.
C20_HistoryIsAppendOnly ==
    [][ /\ IF process_command_calls' = process_command_calls + 1
           THEN /\ Len(action_history') = Len(action_history) + 1
                /\ SubSeq(action_history', 1, Len(action_history)) = action_history
                /\ action_history'[Len(action_history')].command = en_call'.command
                /\ action_history'[Len(action_history')].era = en_call'.era
           ELSE action_history' = action_history
        /\ Len(action_history') = process_command_calls'
        /\ OpOf(en_call') = "get_timeline_state" =>
               en_ret'.total_actions = process_command_calls' ]_vars

\* two commands are in the history in the order they were given, the second
\* computed on the procedural path, and get_timeline_state reports 2
C20_Witness ==
    /\ process_command_calls = 2
    /\ Len(action_history) = 2
    /\ action_history[1].command # action_history[2].command
    /\ OpOf(en_call) = "get_timeline_state"
    /\ en_ret.total_actions = 2

\* C24: each process_command call changes butterfly_index to
\* min(100, max(0, old + paradox_risk*12)), where paradox_risk is the risk of
\* the effect it returns, on the oracle path and on the procedural path.  The
\* returned risk is rounded to three places, so the two sides may differ by the
\* rounding, half a thousandth times 12.
C24_IndexMovesByTwelveTimesRisk ==
    CommandReturned =>
        LET paradox_risk == en_ret.butterfly_effect.paradox_risk * 1000
            expected == ProceduralIndex(en_call.before, paradox_risk)
        IN  /\ engine_butterfly_index - expected <= 6000
            /\ expected - engine_butterfly_index <= 6000

\* C21: the action id allocated by process_command is unique: after any
\* sequence of process_command calls, two of them with the same command text
\* at the same clock reading included, no two entries of the action history
\* carry the same id.
C21_ActionIdsAreUnique ==
    \A i, j \in 1..Len(action_history) :
        action_history[i].id = action_history[j].id => i = j

\* C32: process_command never adds or removes an anchor, never changes the
\* list of causal links and never changes the branches; the only anchor field
\* it can change is the status of the triggering era's anchor, and the anchors
\* of all other eras are left as they are.  (No other operation changes any
\* of them either.)
C32_CommandKeepsTheGraph ==
    [][ /\ causal_links' = causal_links
        /\ branches' = branches
        /\ Len(anchors') = Len(anchors)
        /\ \A i \in 1..Len(anchors) :
               anchors'[i] # anchors[i] =>
                   /\ OpOf(en_call') = "process_command"
                   /\ anchors[i].era = en_call'.era
                   /\ anchors'[i] = [anchors[i] EXCEPT !.status = anchors'[i].status]
      ]_vars

\* a command has changed the status of its era's anchor, and of no other
C32_Witness ==
    /\ CommandReturned
    /\ \E i \in 1..Len(anchors) :
           /\ anchors[i].era = en_call.era
           /\ anchors[i].status = "paradox"
           /\ default_anchors[i].status = "stable"
           /\ \A j \in 1..Len(anchors) : j # i => anchors[j] = default_anchors[j]

\* the oracle's answer was not used: the request failed, the answer was no
\* JSON, or an exception left _gemini_reason
FellBack == CommandReturned /\ client /\ en_ret.source = "procedural_engine"

\* C40: when the oracle path fails at any point and process_command falls
\* back to the procedural path, the command's effect is applied exactly once:
\* the action history gains exactly one entry (when the command is recorded,
\* and none later) and butterfly_index is updated exactly once, by the
\* procedural computation on the engine as the call found it; the failed
\* attempt leaves nothing behind.
C40_FallbackAppliesOnce ==
    [][ /\ (en_pc = "idle" /\ en_pc' = "oracle") =>
               /\ Len(action_history') = Len(action_history) + 1
               /\ engine_butterfly_index' = engine_butterfly_index
               /\ anchors' = anchors
        /\ (en_pc = "oracle" /\ en_pc' = "answered") =>
               /\ action_history' = action_history
               /\ engine_butterfly_index' = engine_butterfly_index
               /\ anchors' = anchors
        /\ (en_pc = "answered" /\ en_pc' = "idle"
               /\ en_ret'.source = "procedural_engine") =>
               \E draw \in Draws :
                   LET r == _procedural_reason(
                                Engine, en_call.command, en_call.era,
                                action_history[Len(action_history)].id, draw)
                   IN  /\ action_history' = action_history
                       /\ engine_butterfly_index' = r.self.butterfly_index
                       /\ anchors' = r.self.anchors
                       /\ en_ret' = r.ret
      ]_vars

\* the request to the oracle raised; the command is in the history once and
\* the index has moved from 50 by the procedural amount
C40_Witness ==
    /\ FellBack
    /\ en_call.response.kind = "raise"
    /\ Len(action_history) = 1
    /\ en_call.before = INITIAL_BUTTERFLY_INDEX
    /\ engine_butterfly_index =
           ProceduralIndex(INITIAL_BUTTERFLY_INDEX,
                           ProceduralRisk(FALSE, TRUE, FALSE, 500))

(***************************************************************************)
(* The text of the generated lines.  A character outside ASCII is written  *)
(* as one element naming its code point.                                   *)
(***************************************************************************)
RECURSIVE Digits(_)
\* str(n) of a natural number
Digits(n) ==
    LET digit == <<"0","1","2","3","4","5","6","7","8","9">>[(n % 10) + 1]
    IN  IF n < 10 THEN <<digit>> ELSE Digits(n \div 10) \o <<digit>>

\* str(x) of a float with one decimal place, x given in tenths
Tenths(x) == Digits(x \div 10) \o <<".">> \o Digits(x % 10)

\* the characters of an era name
EraText(era) ==
    CASE era = "" -> <<>>
      [] era = "Dark Ages" -> <<"D","a","r","k"," ","A","g","e","s">>
      [] era = "Renaissance" -> <<"R","e","n","a","i","s","s","a","n","c","e">>
      [] era = "Atlantis" -> <<"A","t","l","a","n","t","i","s">>
      [] era = "Genocide" -> <<"G","e","n","o","c","i","d","e">>

\* the literal text of an f-string before and after its one placeholder
TemplateParts(template) ==
    CASE template = "Action in {era}: A life is preserved. The timeline shifts." ->
             << <<"A","c","t","i","o","n"," ","i","n"," ">>,
                <<":"," ","A"," ","l","i","f","e"," ","i","s"," ","p","r","e","s","e","r","v","e","d","."," ","T","h","e"," ","t","i","m","e","l","i","n","e"," ","s","h","i","f","t","s",".">> >>
      [] template = "2847 AD: Neo-Kyoto's architecture evolves" ->
             << <<"2","8","4","7"," ","A","D",":"," ","N","e","o","-","K","y","o","t","o","'","s"," ","a","r","c","h","i","t","e","c","t","u","r","e"," ","e","v","o","l","v","e","s"," ","U+2014"," ","b","r","a","s","s"," ","a","n","d"," ","o","r","g","a","n","i","c"," ","m","o","t","i","f","s"," ","e","m","e","r","g","e">>,
                <<>> >>
      [] template = "2200 AD: Colony resources redistribute based on new lineage" ->
             << <<"2","2","0","0"," ","A","D",":"," ","C","o","l","o","n","y"," ","r","e","s","o","u","r","c","e","s"," ","r","e","d","i","s","t","r","i","b","u","t","e"," ","b","a","s","e","d"," ","o","n"," ","n","e","w"," ","l","i","n","e","a","g","e">>,
                <<>> >>
      [] template = "Action in {era}: Destruction ripples forward. Stability drops." ->
             << <<"A","c","t","i","o","n"," ","i","n"," ">>,
                <<":"," ","D","e","s","t","r","u","c","t","i","o","n"," ","r","i","p","p","l","e","s"," ","f","o","r","w","a","r","d","."," ","S","t","a","b","i","l","i","t","y"," ","d","r","o","p","s",".">> >>
      [] template = "2024 AD: The Singularity event accelerates unpredictably" ->
             << <<"2","0","2","4"," ","A","D",":"," ","T","h","e"," ","S","i","n","g","u","l","a","r","i","t","y"," ","e","v","e","n","t"," ","a","c","c","e","l","e","r","a","t","e","s"," ","u","n","p","r","e","d","i","c","t","a","b","l","y">>,
                <<>> >>
      [] template = "2847 AD: Neo-Kyoto descends further into dystopia" ->
             << <<"2","8","4","7"," ","A","D",":"," ","N","e","o","-","K","y","o","t","o"," ","d","e","s","c","e","n","d","s"," ","f","u","r","t","h","e","r"," ","i","n","t","o"," ","d","y","s","t","o","p","i","a">>,
                <<>> >>
      [] template = "Action in {era}: The timeline adjusts to accommodate changes" ->
             << <<"A","c","t","i","o","n"," ","i","n"," ">>,
                <<":"," ","T","h","e"," ","t","i","m","e","l","i","n","e"," ","a","d","j","u","s","t","s"," ","t","o"," ","a","c","c","o","m","m","o","d","a","t","e"," ","c","h","a","n","g","e","s">> >>
      [] template = "Temporal flux detected across {n} eras" ->
             << <<"T","e","m","p","o","r","a","l"," ","f","l","u","x"," ","d","e","t","e","c","t","e","d"," ","a","c","r","o","s","s"," ">>,
                <<" ","e","r","a","s"," ","U+2014"," ","r","e","c","a","l","i","b","r","a","t","i","n","g">> >>
      [] template = "PARADOX WARNING: Causal loop approaching gridlock threshold" ->
             << <<"U+26A0"," ","P","A","R","A","D","O","X"," ","W","A","R","N","I","N","G",":"," ","C","a","u","s","a","l"," ","l","o","o","p"," ","a","p","p","r","o","a","c","h","i","n","g"," ","g","r","i","d","l","o","c","k"," ","t","h","r","e","s","h","o","l","d">>,
                <<>> >>
      [] template = "Processing temporal command: {command}" ->
             << <<"P","r","o","c","e","s","s","i","n","g"," ","t","e","m","p","o","r","a","l"," ","c","o","m","m","a","n","d",":"," ","\"">>,
                <<"\"">> >>
      [] template = "Scanning {n} affected era(s)..." ->
             << <<"S","c","a","n","n","i","n","g"," ">>,
                <<" ","a","f","f","e","c","t","e","d"," ","e","r","a","(","s",")",".",".",".">> >>
      [] template = "Butterfly Index updated: {x}%" ->
             << <<"B","u","t","t","e","r","f","l","y"," ","I","n","d","e","x"," ","u","p","d","a","t","e","d",":"," ">>,
                <<"%">> >>

\* what the placeholder of a line is replaced by
ArgText(line) ==
    IF line.template \in {"Temporal flux detected across {n} eras",
                          "Scanning {n} affected era(s)..."}
    THEN Digits(line.arg)
    ELSE IF line.template = "Butterfly Index updated: {x}%"
    THEN Tenths(line.arg)
    ELSE IF line.template = "Processing temporal command: {command}"
    THEN line.arg
    ELSE IF line.template \in
             {"Action in {era}: A life is preserved. The timeline shifts.",
              "Action in {era}: Destruction ripples forward. Stability drops.",
              "Action in {era}: The timeline adjusts to accommodate changes"}
    THEN EraText(line.arg)
    ELSE <<>>

\* the string a line is
Render(line) ==
    TemplateParts(line.template)[1] \o ArgText(line) \o TemplateParts(line.template)[2]

RenderAll(lines) == [i \in 1..Len(lines) |-> Render(lines[i])]

(***************************************************************************)
(* genie_bridge.py: GenieBridge.  A world state is the three fields        *)
(* apply_butterfly_effect reads and writes.                                *)
(***************************************************************************)
World(tech_level, mood, stability) ==
    [tech_level |-> tech_level, mood |-> mood, stability |-> stability]

\* _initialize_worlds: one world per entry of ERA_TEMPLATES
ERA_TEMPLATES ==
    [era \in {"Dark Ages", "Medieval", "Renaissance", "Enlightenment",
              "Industrial", "Digital", "Neo Age", "Cyberpunk"} |->
        CASE era = "Dark Ages" -> World(1, "Fearful, superstitious", 70)
          [] era = "Medieval" -> World(2, "Warlike, ambitious", 55)
          [] era = "Renaissance" -> World(3, "Curious, inventive, secretive", 82)
          [] era = "Enlightenment" -> World(4, "Rational, experimental", 78)
          [] era = "Industrial" -> World(5, "Progressive, exploitative", 60)
          [] era = "Digital" -> World(7, "Anxious, hyper-connected", 65)
          [] era = "Neo Age" -> World(8, "Hopeful, isolated", 88)
          [] era = "Cyberpunk" -> World(9, "Dystopian, rebellious", 40)]

\* the sums are kept from going below 0 only
ApplyDelta_NoUpperClamp(state, delta) ==
    LET stability == IF "stability_change" \in DOMAIN delta
                     THEN Max(0, state.stability + delta.stability_change)
                     ELSE state.stability
        tech_level == IF "tech_level_shift" \in DOMAIN delta
                      THEN Max(0, state.tech_level + delta.tech_level_shift)
                      ELSE state.tech_level
        mood == IF stability < 30 THEN "Chaotic, fearful"
                ELSE IF stability < 50 THEN "Tense, unstable"
                ELSE IF stability > 80 THEN "Peaceful, prosperous"
                ELSE state.mood
    IN  World(tech_level, mood, stability)

\* lines 242-259 on one world
ApplyDelta(state, delta) ==
    LET stability == IF "stability_change" \in DOMAIN delta
                     THEN Max(0, Min(100, state.stability + delta.stability_change))
                     ELSE state.stability
        tech_level == IF "tech_level_shift" \in DOMAIN delta
                      THEN Max(0, Min(10, state.tech_level + delta.tech_level_shift))
                      ELSE state.tech_level
        mood == IF stability < 30 THEN "Chaotic, fearful"
                ELSE IF stability < 50 THEN "Tense, unstable"
                ELSE IF stability > 80 THEN "Peaceful, prosperous"
                ELSE state.mood
    IN  World(tech_level, mood, stability)

\* the era_changes list of one world: a stability line whenever the delta
\* has the key, a tech level line when the level moved
EraChanges(state, delta) ==
    LET after == ApplyDelta(state, delta)
    IN  (IF "stability_change" \in DOMAIN delta
         THEN <<Line("Stability: {old} -> {new}", <<state.stability, after.stability>>)>>
         ELSE <<>>)
        \o (IF "tech_level_shift" \in DOMAIN delta /\ state.tech_level # after.tech_level
            THEN <<Line("Tech Level: {old} -> {new}", <<state.tech_level, after.tech_level>>)>>
            ELSE <<>>)

\* self is world_states; eras of the delta with no world are skipped
apply_butterfly_effect(self, world_state_delta) ==
    LET known == DOMAIN world_state_delta \cap DOMAIN self
        changed == {era_name \in known :
                        EraChanges(self[era_name], world_state_delta[era_name]) # <<>>}
    IN  [self |-> [era_name \in DOMAIN self |->
                      IF era_name \in known
                      THEN ApplyDelta(self[era_name], world_state_delta[era_name])
                      ELSE self[era_name]],
         ret  |-> [applied_changes |->
                       [era_name \in changed |->
                           EraChanges(self[era_name], world_state_delta[era_name])],
                   total_eras_affected |-> Cardinality(changed)]]

(***************************************************************************)
(* app.py: temporal_command handled by two threads of the server at once,  *)
(* on the module-level engine (built without a client) and ethics board.   *)
(* No statement of the handler holds a lock, so a thread may be preempted  *)
(* between the read and the write of                                       *)
(*   self.paradox_accumulator = min(1.0, self.paradox_accumulator + ...)   *)
(*   self.butterfly_index = min(100, max(0, self.butterfly_index + ...))   *)
(* Each thread's steps: receive the request; enter a limiter check and     *)
(* read the accumulator; write it and finish the check; record the action  *)
(* and read butterfly_index; write it and finish process_command; then the *)
(* post-action check in the same two steps.                                *)
(***************************************************************************)
Threads == {1, 2}

\* a destroy command and a command the content filter blocks
ThreadCommands ==
    { <<"K","i","l","l"," ","t","h","e"," ","k","i","n","g">>,
      <<"C","o","m","m","i","t"," ","g","e","n","o","c","i","d","e">> }

ThreadEras == {"Dark Ages", "Renaissance"}

\* draws whose risks (0.7 and 0.775) keep butterfly_index on whole tenths, so
\* that the index handed to the pre-action check is a whole number of tenths
ThreadDraws ==
    { [u |-> 500, deltas |-> << [stability_change |-> 5, tech_level_shift |-> 1],
                                [stability_change |-> -10, tech_level_shift |-> -1] >>],
      [u |-> 875, deltas |-> << [stability_change |-> -10, tech_level_shift |-> -1],
                                [stability_change |-> 0, tech_level_shift |-> 0] >> ] }

\* the pre-action check is handed the highest risk
PRE_CHECK_RISK_Full == 300 + 700

\* line 60: the fixed risk the pre-action check passes, in thousandths
PRE_CHECK_RISK == 300

IdleThread ==
    [pc |-> "idle", command |-> None, era |-> None, check |-> None,
     accumulator_read |-> None, risk_arg |-> None, index_arg |-> None,
     index_read |-> None, action_id |-> None, result |-> None, response |-> None]

InitConcurrent ==
    /\ anchors = NewEngine(FALSE).anchors
    /\ causal_links = NewEngine(FALSE).causal_links
    /\ branches = NewEngine(FALSE).branches
    /\ engine_butterfly_index = NewEngine(FALSE).butterfly_index
    /\ action_history = NewEngine(FALSE).action_history
    /\ client = NewEngine(FALSE).client
    /\ clock = 0
    /\ en_pc = "idle"
    /\ en_call = None
    /\ en_ret = None
    /\ timeline_seen = None
    /\ process_command_calls = 0
    /\ th = [t \in Threads |-> IdleThread]
    /\ limiter_log = <<>>
    /\ AppOff
    /\ GuardrailsNew
    /\ FilterOff
    /\ PathOff
    /\ CausalityOff

\* lines 49-54: a request with a non-empty command arrives
Receive(t) ==
    \E command \in ThreadCommands, era \in ThreadEras :
        /\ th[t].pc = "idle"
        /\ th' = [th EXCEPT ![t].pc = "check", ![t].command = command, ![t].era = era,
                            ![t].check = "pre", ![t].risk_arg = PRE_CHECK_RISK,
                            ![t].index_arg = engine_butterfly_index \div 100000]
        /\ UNCHANGED <<limiter_log, engineVars, graphVars, guardVars, filterVars,
                       pathVars, causalityVars, appVars>>

\* evaluate_action up to the read of the accumulator in line 118 (or to its
\* return when the content filter blocks the command)
LimiterRead(t) ==
    /\ th[t].pc = "check"
    /\ LET safety == check_content(th[t].command)
       IN  IF ~safety.is_safe
           THEN /\ th' = [th EXCEPT ![t].pc = "done",
                              ![t].response = [blocked |-> TRUE,
                                               reason |-> "content_safety"]]
                /\ UNCHANGED limiter_log
           ELSE /\ th' = [th EXCEPT ![t].pc = "check_write",
                              ![t].accumulator_read = paradox_limiter.paradox_accumulator]
                /\ limiter_log' = Append(limiter_log,
                                         [thread |-> t, check |-> th[t].check])
    /\ UNCHANGED <<engineVars, graphVars, guardVars, filterVars, pathVars,
                   causalityVars, appVars>>

\* check_paradox_risk from the write of line 118 to its return, and
\* evaluate_action to its return
LimiterWrite(t) ==
    /\ th[t].pc = "check_write"
    /\ LET r == check_paradox_risk(
                    [paradox_limiter EXCEPT
                         !.paradox_accumulator = th[t].accumulator_read],
                    th[t].risk_arg, th[t].index_arg)
       IN  /\ paradox_limiter' = r.self
           /\ limiter_invocations' = limiter_invocations + 1
           /\ th' = [th EXCEPT
                  ![t].pc = IF ~r.ret.allowed \/ th[t].check = "post"
                            THEN "done" ELSE "engine",
                  ![t].response = IF ~r.ret.allowed
                                  THEN [blocked |-> TRUE, reason |-> "paradox_gridlock"]
                                  ELSE IF th[t].check = "post"
                                  THEN [blocked |-> FALSE]
                                  ELSE @]
    /\ UNCHANGED <<limiter_log, gr_calls, gr_call, gr_ret, engineVars, graphVars,
                   filterVars, pathVars, causalityVars, appVars>>

\* process_command from its entry to the read of butterfly_index in line 326
EngineRead(t) ==
    \E advance \in ClockAdvances :
        LET now1 == clock + advance[1]
            now2 == now1 + advance[2]
            recorded == RecordAction(Engine, th[t].command, th[t].era, now1, now2)
        IN  /\ th[t].pc = "engine"
            /\ action_history' = recorded.self.action_history
            /\ clock' = now2
            /\ process_command_calls' = process_command_calls + 1
            /\ th' = [th EXCEPT ![t].pc = "engine_write",
                                ![t].action_id = recorded.action_id,
                                ![t].index_read = engine_butterfly_index]
            /\ UNCHANGED <<limiter_log, graphVars, branches, engine_butterfly_index,
                           client, en_pc, en_call, en_ret, timeline_seen,
                           guardVars, filterVars, pathVars, causalityVars, appVars>>

\* _procedural_reason from the write of line 326 to its return, and lines
\* 73-77 of the handler
EngineWrite(t) ==
    \E draw \in ThreadDraws :
        LET r == _procedural_reason(
                     [Engine EXCEPT !.butterfly_index = th[t].index_read],
                     th[t].command, th[t].era, th[t].action_id, draw)
        IN  /\ th[t].pc = "engine_write"
            /\ EngineBecomes(r.self)
            /\ th' = [th EXCEPT ![t].pc = "check", ![t].check = "post",
                                ![t].result = r.ret,
                                ![t].risk_arg = r.ret.butterfly_effect.paradox_risk,
                                ![t].index_arg = r.ret.butterfly_index]
            /\ UNCHANGED <<limiter_log, clock, en_pc, en_call, en_ret, timeline_seen,
                           process_command_calls, guardVars, filterVars, pathVars,
                           causalityVars, appVars>>

NextConcurrent ==
    \E t \in Threads :
        \/ Receive(t)
        \/ LimiterRead(t)
        \/ LimiterWrite(t)
        \/ EngineRead(t)
        \/ EngineWrite(t)

SpecConcurrent == InitConcurrent /\ [][NextConcurrent]_vars

(***************************************************************************)
(* Claims on concurrent requests (SpecConcurrent)                          *)
(***************************************************************************)
AllDone == \A t \in Threads : th[t].pc = "done"

\* the paradox risk of the command thread t ran through process_command, in
\* millionths; 0 when its request never reached the engine
RiskOf(t) ==
    IF th[t].result = None THEN 0
    ELSE th[t].result.butterfly_effect.paradox_risk * 1000

\* C15: concurrent process_command invocations are serialized over their
\* read-modify-write of butterfly_index: once both requests are done, the
\* index is what applying the two increments one after the other gives (no
\* lost update).
C15_NoLostUpdate ==
    AllDone =>
        engine_butterfly_index =
            ProceduralIndex(ProceduralIndex(INITIAL_BUTTERFLY_INDEX, RiskOf(1)),
                            RiskOf(2))

\* C16: the pre-action and post-action limiter checks of one command form
\* one critical section: no check of the other command is entered between
\* them, and no check writes an accumulator computed from a value that is
\* no longer the limiter's.
C16_ChecksAreOneCriticalSection ==
    /\ \A i, j, k \in 1..Len(limiter_log) :
           (i < j /\ j < k /\ limiter_log[i].thread = limiter_log[k].thread) =>
               limiter_log[j].thread = limiter_log[i].thread
    /\ \A t \in Threads :
           th[t].pc = "check_write" =>
               th[t].accumulator_read = paradox_limiter.paradox_accumulator

(***************************************************************************)
(* Specification SpecProcedural: one process_command call on a new engine  *)
(* without a client, over a wide grid of commands, eras and random draws.  *)
(***************************************************************************)
\* one command per bucket, and commands with keywords of two buckets
ProceduralCommands ==
    { <<"S","a","v","e"," ","h","i","m">>,
      <<"K","i","l","l"," ","h","i","m">>,
      <<"M","o","v","e"," ","o","n">>,
      <<"L","o","o","k">>,
      <<"S","a","v","e"," ","o","r"," ","k","i","l","l">>,
      <<"S","t","o","p"," ","t","r","a","v","e","l">>,
      <<"H","e","l","p"," ","m","o","v","e">> }

\* eras with one, two and no outgoing links (Digital's lead to Neo Age and
\* Cyberpunk), and an era of no anchor
ProceduralEras == {"Dark Ages", "Renaissance", "Digital", "Cyberpunk", UnknownEra}

\* random.random() in thousandths: both ends, and the values around the
\* paradox threshold and around the rounding of the risk to three decimals
JitterDraws == {0, 1, 500, 501, 997, 998, 999}

\* (random.randint(-10, 5), random.choice([-1, 0, 0, 1])) results
DeltaDraws ==
    { [stability_change |-> sc, tech_level_shift |-> tl] :
          sc \in {-10, 0, 5}, tl \in {-1, 0, 1} }

ProceduralDraws ==
    { [u |-> u, deltas |-> <<d1, d2>>] :
          u \in JitterDraws, d1 \in DeltaDraws, d2 \in {[stability_change |-> -10, tech_level_shift |-> -1], [stability_change |-> 5, tech_level_shift |-> 1]} }

ProceduralCall ==
    \E command \in ProceduralCommands, era \in ProceduralEras,
       draw \in ProceduralDraws :
        LET r == process_command(Engine, command, era, clock, clock, None, draw)
        IN  /\ en_pc = "idle"
            /\ ~client
            /\ process_command_calls = 0
            /\ EngineBecomes(r.self)
            /\ process_command_calls' = process_command_calls + 1
            /\ en_call' = [op |-> "process_command", command |-> command, era |-> era,
                           response |-> None, draw |-> draw,
                           before |-> engine_butterfly_index]
            /\ en_ret' = r.ret
            /\ UNCHANGED <<clock, en_pc, timeline_seen, filterVars, guardVars,
                           pathVars, causalityVars, threadVars, appVars>>

InitProcedural == InitEngine /\ ~client

NextProcedural == ProceduralCall

SpecProcedural == InitProcedural /\ [][NextProcedural]_vars

(***************************************************************************)
(* Claims on the procedural calculator (SpecProcedural)                    *)
(***************************************************************************)
\* the intent bucket by first match in the order save, destroy, change, other
Bucket(command) ==
    LET cmd_lower == Lower(command)
    IN  IF AnyWordIn(save_words, cmd_lower) THEN "save"
        ELSE IF AnyWordIn(destroy_words, cmd_lower) THEN "destroy"
        ELSE IF AnyWordIn(change_words, cmd_lower) THEN "change"
        ELSE "other"

\* the branch of the risk calculation a command takes: destroy is tested
\* first, then change, then save
RiskBucket(command) ==
    LET cmd_lower == Lower(command)
    IN  IF AnyWordIn(destroy_words, cmd_lower) THEN "destroy"
        ELSE IF AnyWordIn(change_words, cmd_lower) THEN "change"
        ELSE IF AnyWordIn(save_words, cmd_lower) THEN "save"
        ELSE "other"

\* the declared risk range of a bucket, in thousandths: <<low, high>>
DeclaredRange(bucket) ==
    CASE bucket = "destroy" -> <<500, 800>>
      [] bucket = "change" -> <<300, 500>>
      [] bucket = "save" -> <<100, 250>>
      [] bucket = "other" -> <<200, 300>>

\* the first narrative line _generate_narratives gives a bucket
FirstLineOf(bucket, era) ==
    CASE bucket = "save" ->
             Line("Action in {era}: A life is preserved. The timeline shifts.", era)
      [] bucket = "destroy" ->
             Line("Action in {era}: Destruction ripples forward. Stability drops.", era)
      [] OTHER ->
             Line("Action in {era}: The timeline adjusts to accommodate changes", era)

\* C25: the procedural calculator puts every command in exactly one bucket by
\* first match in the order save, destroy, change, other, and uses that one
\* bucket for the risk range, the narrative lines and the sign of the
\* triggering era's stability delta; a command with a save keyword and a
\* destroy keyword is save in all three.
C25_OneBucketSaveFirst ==
    CommandReturned =>
        LET bucket == Bucket(en_call.command)
            effect == en_ret.butterfly_effect
        IN  /\ effect.paradox_risk >= DeclaredRange(bucket)[1]
            /\ effect.paradox_risk <= DeclaredRange(bucket)[2]
            /\ effect.narrative_changes[1] = FirstLineOf(bucket, en_call.era)
            /\ effect.world_state_delta[en_call.era].stability_change =
                   IF bucket = "destroy" THEN -5 ELSE 3

C27_ParadoxMarksAndWarns ==
    CommandReturned =>
        LET era_anchor == EraAnchor(anchors, en_call.era)
            narratives == en_ret.butterfly_effect.narrative_changes
        IN  IF en_ret.is_paradox
            THEN /\ era_anchor # 0 => anchors[era_anchor].status = "paradox"
                 /\ InSeq(PARADOX_WARNING, narratives)
            ELSE /\ anchors = default_anchors
                 /\ ~InSeq(PARADOX_WARNING, narratives)

\* C30: the world_state_delta of a procedural effect has exactly one entry
\* per affected era; the triggering era's entry is stability_change -5 when
\* the command has a destroy keyword and +3 otherwise; every other entry has
\* an integer stability_change in [-10,5] and a tech_level_shift in {-1,0,1}.
C30_WorldDeltaPerAffectedEra ==
    CommandReturned =>
        LET effect == en_ret.butterfly_effect
            delta == effect.world_state_delta
            is_destroy == AnyWordIn(destroy_words, Lower(en_call.command))
        IN  /\ DOMAIN delta = {effect.affected_eras[i] : i \in 1..Len(effect.affected_eras)}
            /\ delta[en_call.era] = [stability_change |-> IF is_destroy THEN -5 ELSE 3]
            /\ \A e \in DOMAIN delta \ {en_call.era} :
                   /\ DOMAIN delta[e] = {"stability_change", "tech_level_shift"}
                   /\ delta[e].stability_change \in -10..5
                   /\ delta[e].tech_level_shift \in {-1, 0, 1}

\* a destroy command in Digital: three entries, Digital's at -5, the two
\* other eras with the two draws in order
C30_Witness ==
    /\ CommandReturned
    /\ en_call.era = "Digital"
    /\ AnyWordIn(destroy_words, Lower(en_call.command))
    /\ DOMAIN en_ret.butterfly_effect.world_state_delta = {"Digital", "Neo Age", "Cyberpunk"}
    /\ en_ret.butterfly_effect.world_state_delta["Digital"].stability_change = -5
    /\ en_ret.butterfly_effect.world_state_delta["Neo Age"] = en_call.draw.deltas[1]
    /\ en_ret.butterfly_effect.world_state_delta["Cyberpunk"] = en_call.draw.deltas[2]
    /\ en_call.draw.deltas[1] # en_call.draw.deltas[2]

(***************************************************************************)
(* Specification SpecGenie: direct calls of apply_butterfly_effect on the  *)
(* worlds a new GenieBridge has, with deltas far outside and inside the    *)
(* ranges, with and without each key, for known eras and an unknown one.   *)
(***************************************************************************)
MaxApplies == 2

StabilityChanges == {-200, -45, 70}
TechLevelShifts == {-3, 2}

DeltaEntries ==
    [stability_change : StabilityChanges]
        \cup [tech_level_shift : TechLevelShifts]
        \cup [stability_change : StabilityChanges, tech_level_shift : TechLevelShifts]

\* one entry for the least stable world, for a stable one or for an era of no
\* world, and two entries of which one names an era of no world
WorldStateDeltas ==
    { era :> entry : era \in {"Cyberpunk", "Dark Ages", UnknownEra},
                     entry \in DeltaEntries }
        \cup { (UnknownEra :> [stability_change |-> 70, tech_level_shift |-> 2]
                    @@ "Cyberpunk" :> entry) :
               entry \in [stability_change : StabilityChanges] }

InitGenie ==
    /\ world_states = ERA_TEMPLATES
    /\ GenieCallsOff
    /\ tc_calls = 0
    /\ tc_call = None
    /\ tc_ret = None
    /\ branches = <<>>
    /\ engine_butterfly_index = 0
    /\ action_history = <<>>
    /\ client = FALSE
    /\ clock = 0
    /\ en_pc = "off"
    /\ en_call = None
    /\ en_ret = None
    /\ process_command_calls = 0
    /\ timeline_seen = None
    /\ th = <<>>
    /\ limiter_log = <<>>
    /\ FilterOff
    /\ GuardrailsNew
    /\ GraphOff
    /\ PathOff
    /\ CausalityOff

ApplyButterflyEffectCall ==
    /\ gb_calls < MaxApplies
    /\ \E world_state_delta \in WorldStateDeltas :
           \E r \in {apply_butterfly_effect(world_states, world_state_delta)} :
               /\ world_states' = r.self
               /\ gb_calls' = gb_calls + 1
               /\ gb_call' = [world_state_delta |-> world_state_delta,
                              before |-> world_states]
               /\ gb_ret' = r.ret
               /\ UNCHANGED <<tc_calls, tc_call, tc_ret, filterVars, guardVars,
                              graphVars, pathVars, causalityVars, engineVars,
                              threadVars>>

NextGenie == ApplyButterflyEffectCall

SpecGenie == InitGenie /\ [][NextGenie]_vars

\* C31: after any sequence of apply_butterfly_effect calls with arbitrary
\* integer deltas every era's stability lies within [0,100] and its
\* tech_level within [0,10]; an entry of the delta that names an era of no
\* world changes no era's state (the worlds the delta does not name are as
\* they were, and there is no new world) and is not among the applied changes.
C31_WorldsStayInRange ==
    /\ \A era \in DOMAIN world_states :
           /\ world_states[era].stability \in 0..100
           /\ world_states[era].tech_level \in 0..10
    /\ gb_calls > 0 =>
           /\ DOMAIN world_states = DOMAIN gb_call.before
           /\ \A era \in DOMAIN world_states \ DOMAIN gb_call.world_state_delta :
                  world_states[era] = gb_call.before[era]
           /\ DOMAIN gb_ret.applied_changes \subseteq
                  DOMAIN gb_call.world_state_delta \cap DOMAIN gb_call.before
           /\ gb_ret.total_eras_affected = Cardinality(DOMAIN gb_ret.applied_changes)

\* a delta for an era of no world and for Cyberpunk, which takes Cyberpunk's
\* stability to the lower end: one era is reported
C31_Witness ==
    /\ gb_calls > 0
    /\ DOMAIN gb_call.world_state_delta = {UnknownEra, "Cyberpunk"}
    /\ gb_call.world_state_delta["Cyberpunk"].stability_change = -200
    /\ world_states["Cyberpunk"].stability = 0
    /\ DOMAIN gb_ret.applied_changes = {"Cyberpunk"}
    /\ gb_ret.total_eras_affected = 1

(***************************************************************************)
(* Specification SpecApp: app.py's temporal_command, one request at a      *)
(* time, on the module-level engine (built without a client), ethics board *)
(* and genie bridge.  The request body is a function from its keys.  The   *)
(* voice handler of line 57 keeps no state and only adds the intent to the *)
(* response; it is left out.                                               *)
(***************************************************************************)
MaxRequests == 2

\* "Kill the king" in the Renaissance: a destroy command
KillRequest ==
    "command" :> <<"K","i","l","l"," ","t","h","e"," ","k","i","n","g">>
        @@ "era" :> "Renaissance"

\* bodies with and without each key, with an empty string for each key, with
\* a command of no keyword, a destroy command, a change command, a command
\* the content filter blocks and with an era of no anchor whose name has a
\* high-risk keyword
AppRequests ==
    { ("command" :> <<"L","o","o","k">> @@ "era" :> "Renaissance"),
      KillRequest,
      ("command" :> <<"M","o","v","e"," ","o","n">> @@ "era" :> "Renaissance"),
      ("command" :> <<"C","o","m","m","i","t"," ","g","e","n","o","c","i","d","e">>
           @@ "era" :> "Renaissance"),
      ("command" :> <<>> @@ "era" :> "Renaissance"),
      ("era" :> "Renaissance"),
      ("command" :> <<"L","o","o","k">>),
      ("command" :> <<"L","o","o","k">> @@ "era" :> ""),
      ("command" :> <<"L","o","o","k">> @@ "era" :> "Genocide") }

\* the draw that gives a destroy command the risk 0.7, the highest that is
\* no paradox
MidDraw ==
    [u |-> 500, deltas |-> << [stability_change |-> 5, tech_level_shift |-> 1],
                              [stability_change |-> -10, tech_level_shift |-> -1] >>]

\* draws from the middle, the upper part and the upper end of the jitter: a
\* destroy command's risk is 0.7, 0.75 and 0.7998, a change command's 0.425,
\* 0.4625 and 0.49985
AppDraws ==
    { MidDraw,
      [u |-> 750, deltas |-> << [stability_change |-> -10, tech_level_shift |-> 0],
                                [stability_change |-> 5, tech_level_shift |-> 1] >>],
      [u |-> 999, deltas |-> << [stability_change |-> 5, tech_level_shift |-> -1],
                                [stability_change |-> -10, tech_level_shift |-> 1] >>] }

\* what the handler can change: the engine, the limiter, the worlds
AppState ==
    [engine |-> Engine, limiter |-> paradox_limiter, worlds |-> world_states]

\* The handler of lines 43-105, written from its last step to its first;
\* each step is handed the values of the steps before it, so each call of
\* the handler is evaluated once.  In the result, stage: where the handler
\* returned; self: the three objects after it; checks: how often
\* check_paradox_risk was entered; commands: how often process_command was
\* entered; pre_check, post_check: what evaluate_action returned (None: not
\* called); ret: the response.

\* lines 86-105: the world delta is applied and the response is built
Respond(self, pre_check, processed, post_check) ==
    CHOOSE out \in
        { [stage |-> "answered",
           self |-> [limiter |-> post_check.self, engine |-> processed.self,
                     worlds |-> applied.self],
           checks |-> pre_check.invoked + post_check.invoked, commands |-> 1,
           pre_check |-> pre_check.ret, post_check |-> post_check.ret,
           ret |-> [status |-> 200,
                    action_id |-> processed.ret.action_id,
                    butterfly_effect |->
                        [processed.ret.butterfly_effect EXCEPT !.narrative_changes =
                             sanitize_output(RenderAll(@))],
                    butterfly_index |-> processed.ret.butterfly_index,
                    world_changes |-> applied.ret,
                    echo_messages |-> RenderAll(processed.ret.echo_messages),
                    is_paradox |-> processed.ret.is_paradox]] :
          applied \in {apply_butterfly_effect(
                           self.worlds,
                           processed.ret.butterfly_effect.world_state_delta)} } : TRUE

\* the world delta is applied before the post-check is consulted
PostCheck_AppliesFirst(self, command, pre_check, processed) ==
    CHOOSE out \in
        { IF ~post_check.ret.approved
          THEN [stage |-> "post_check",
                self |-> [limiter |-> post_check.self, engine |-> processed.self,
                          worlds |-> apply_butterfly_effect(
                              self.worlds,
                              processed.ret.butterfly_effect.world_state_delta).self],
                checks |-> pre_check.invoked + post_check.invoked, commands |-> 1,
                pre_check |-> pre_check.ret, post_check |-> post_check.ret,
                ret |-> [status |-> 200, blocked |-> TRUE,
                         reason |-> post_check.ret.reason,
                         details |-> post_check.ret.details,
                         echo_messages |-> <<post_check.ret.details.message>>]]
          ELSE Respond(self, pre_check, processed, post_check) :
          post_check \in {evaluate_action(pre_check.self, command,
                                          processed.ret.butterfly_effect.paradox_risk,
                                          processed.ret.butterfly_index)} } : TRUE

\* lines 72-84: the post-check on the risk and the index of the result
PostCheck(self, command, pre_check, processed) ==
    CHOOSE out \in
        { IF ~post_check.ret.approved
          THEN [stage |-> "post_check",
                self |-> [self EXCEPT !.limiter = post_check.self,
                                      !.engine = processed.self],
                checks |-> pre_check.invoked + post_check.invoked, commands |-> 1,
                pre_check |-> pre_check.ret, post_check |-> post_check.ret,
                ret |-> [status |-> 200, blocked |-> TRUE,
                         reason |-> post_check.ret.reason,
                         details |-> post_check.ret.details,
                         echo_messages |-> <<post_check.ret.details.message>>]]
          ELSE Respond(self, pre_check, processed, post_check) :
          post_check \in {evaluate_action(pre_check.self, command,
                                          processed.ret.butterfly_effect.paradox_risk,
                                          processed.ret.butterfly_index)} } : TRUE

\* lines 61-70: the verdict of the pre-check, then process_command
Process(self, command, current_era, pre_check, now1, now2, draw) ==
    IF ~pre_check.ret.approved
    THEN [stage |-> "pre_check",
          self |-> [self EXCEPT !.limiter = pre_check.self],
          checks |-> pre_check.invoked, commands |-> 0,
          pre_check |-> pre_check.ret, post_check |-> None,
          ret |-> [status |-> 200, blocked |-> TRUE,
                   reason |-> pre_check.ret.reason,
                   details |-> pre_check.ret.details,
                   echo_messages |-> <<pre_check.ret.details.message>>]]
    ELSE CHOOSE out \in
             { PostCheck(self, command, pre_check, processed) :
               processed \in {process_command(self.engine, command, current_era,
                                              now1, now2, None, draw)} } : TRUE

\* lines 49-60.  The limiter takes the index in tenths: the pre-check is
\* handed the engine's index cut to a tenth, which changes no verdict, as the
\* pre-check's combined risk is below 0.18 + 0.4 whatever the index is
temporal_command(self, data, now1, now2, draw) ==
    LET command == Get(data, "command", <<>>)
        current_era == Get(data, "era", "Renaissance")
    IN  IF command = <<>>
        THEN [stage |-> "rejected", self |-> self, checks |-> 0, commands |-> 0,
              pre_check |-> None, post_check |-> None,
              ret |-> [status |-> 400, error |-> "No command provided"]]
        ELSE CHOOSE out \in
                 { Process(self, command, current_era, pre_check, now1, now2, draw) :
                   pre_check \in {evaluate_action(self.limiter, command,
                                                  PRE_CHECK_RISK,
                                                  self.engine.butterfly_index
                                                      \div 100000)} } : TRUE

\* the module-level objects of lines 21-25, the engine without a client
NewSession ==
    [engine |-> NewEngine(FALSE), limiter |-> NewParadoxLimiter,
     worlds |-> ERA_TEMPLATES]

\* the session after n requests of KillRequest with the middle draw, each
\* handled at the times the engine's clock gives it
RECURSIVE SessionAfter(_)
SessionAfter(n) ==
    IF n = 0 THEN NewSession
    ELSE CHOOSE after \in
             { temporal_command(before, KillRequest, 2 * n - 1, 2 * n, MidDraw).self :
               before \in {SessionAfter(n - 1)} } : TRUE

\* the requests a late session has handled: five such requests are all
\* answered and take butterfly_index from 50 to 92
LateRequests == 5

\* the server at its start or late in a session
InitApp ==
    /\ \E session \in {SessionAfter(0), SessionAfter(LateRequests)} :
           /\ anchors = session.engine.anchors
           /\ causal_links = session.engine.causal_links
           /\ branches = session.engine.branches
           /\ engine_butterfly_index = session.engine.butterfly_index
           /\ action_history = session.engine.action_history
           /\ client = session.engine.client
           /\ clock = 2 * Len(session.engine.action_history)
           /\ paradox_limiter = session.limiter
           /\ limiter_invocations = 2 * Len(session.engine.action_history)
           /\ world_states = session.worlds
    /\ en_pc = "idle"
    /\ en_call = None
    /\ en_ret = None
    /\ timeline_seen = None
    /\ process_command_calls = 0
    /\ th = <<>>
    /\ limiter_log = <<>>
    /\ tc_calls = 0
    /\ tc_call = None
    /\ tc_ret = None
    /\ gr_calls = 0
    /\ gr_call = None
    /\ gr_ret = None
    /\ GenieCallsOff
    /\ FilterOff
    /\ PathOff
    /\ CausalityOff

\* one request handled from its arrival to its response
TemporalCommand ==
    /\ tc_calls < MaxRequests
    /\ \E data \in AppRequests, draw \in AppDraws :
           \E r \in {temporal_command(AppState, data, clock + 1, clock + 2, draw)} :
               /\ tc_calls' = tc_calls + 1
               /\ EngineBecomes(r.self.engine)
               /\ paradox_limiter' = r.self.limiter
               /\ world_states' = r.self.worlds
               /\ limiter_invocations' = limiter_invocations + r.checks
               /\ process_command_calls' = process_command_calls + r.commands
               /\ clock' = clock + 2 * r.commands
               /\ tc_call' = [data |-> data, draw |-> draw, stage |-> r.stage,
                              before |-> AppState, pre_check |-> r.pre_check,
                              post_check |-> r.post_check]
               /\ tc_ret' = r.ret
               /\ UNCHANGED <<gr_calls, gr_call, gr_ret, en_pc, en_call, en_ret,
                              timeline_seen, gb_calls, gb_call, gb_ret, filterVars,
                              pathVars, causalityVars, threadVars>>

NextApp == TemporalCommand

SpecApp == InitApp /\ [][NextApp]_vars

(***************************************************************************)
(* Claims on the temporal-command requests (SpecApp)                       *)
(***************************************************************************)
\* the body has no command or an empty one, or no era or an empty one
Malformed(data) ==
    \/ Get(data, "command", <<>>) = <<>>
    \/ Get(data, "era", "") = ""

\* C22: a temporal-command request whose command string or era string is
\* empty or missing is rejected before any guardrail check or engine
\* operation runs: the engine, the limiter and the era world states are as
\* they were before it.
C22_MalformedRequestChangesNothing ==
    (tc_calls > 0 /\ Malformed(tc_call.data)) =>
        /\ tc_call.stage = "rejected"
        /\ AppState = tc_call.before

\* C29: in every non-blocked temporal-command response, no element of
\* butterfly_effect.narrative_changes and no element of echo_messages is a
\* string that check_content classifies as blocked, for every command and
\* era string that reaches the engine.
C29_NoBlockedStringIsShown ==
    (tc_calls > 0 /\ tc_call.stage = "answered") =>
        /\ \A i \in 1..Len(tc_ret.butterfly_effect.narrative_changes) :
               check_content(tc_ret.butterfly_effect.narrative_changes[i]).risk_level
                   # "blocked"
        /\ \A i \in 1..Len(tc_ret.echo_messages) :
               check_content(tc_ret.echo_messages[i]).risk_level # "blocked"

\* the step is a request that the handler left at the given stage
Handled(stage) ==
    /\ tc_calls' = tc_calls + 1
    /\ tc_call'.stage = stage

\* C36: when the pre-check rejects a request, process_command is never
\* invoked: the engine's butterfly_index, action history and anchor statuses,
\* the limiter's state and every era's world state are what they were before
\* the request.
C36_PreCheckRejectionChangesNothing ==
    [][Handled("pre_check") =>
           /\ process_command_calls' = process_command_calls
           /\ engine_butterfly_index' = engine_butterfly_index
           /\ action_history' = action_history
           /\ anchors' = anchors
           /\ paradox_limiter' = paradox_limiter
           /\ limiter_invocations' = limiter_invocations
           /\ world_states' = world_states]_vars

\* late in a session a command of blocked content is rejected by the
\* pre-check
C36_Witness ==
    /\ tc_calls > 0
    /\ tc_call.stage = "pre_check"
    /\ ~tc_call.pre_check.approved
    /\ tc_call.before.engine.action_history # <<>>
    /\ AppState = tc_call.before

\* C34: a rejection by the pre-check always has the reason content_safety:
\* the pre-check, with its fixed risk 0.3, never yields paradox_gridlock and
\* never even the status warning; a rejection by the post-check always has
\* the reason paradox_gridlock.
C34_RejectionReasons ==
    tc_calls > 0 =>
        /\ tc_call.stage = "pre_check" =>
               /\ tc_ret.blocked
               /\ tc_ret.reason = "content_safety"
        /\ tc_call.stage \in {"post_check", "answered"} =>
               /\ tc_call.pre_check.approved
               /\ tc_call.pre_check.paradox.status = "safe"
        /\ tc_call.stage = "post_check" =>
               /\ tc_ret.blocked
               /\ tc_ret.reason = "paradox_gridlock"

\* at a butterfly_index of 92 or more the pre-check finds the request safe
\* and the post-check rejects it
C34_Witness ==
    /\ tc_calls > 0
    /\ tc_call.stage = "post_check"
    /\ tc_call.before.engine.butterfly_index >= 92000000
    /\ tc_call.pre_check.paradox.status = "safe"
    /\ tc_ret.reason = "paradox_gridlock"

\* the engine after process_command on the request of the step
EngineAfterCommand ==
    process_command(Engine, Get(tc_call'.data, "command", <<>>),
                    Get(tc_call'.data, "era", "Renaissance"),
                    clock + 1, clock + 2, None, tc_call'.draw).self

\* C35: when the post-check rejects a request, the world delta of the
\* command is applied to no era, while the effects of process_command on the
\* engine remain: the history has its new entry, butterfly_index has its
\* increase and the anchor of the triggering era has its new status.
C35_PostCheckRejectionKeepsTheEngineEffects ==
    [][Handled("post_check") =>
           /\ world_states' = world_states
           /\ Engine' = EngineAfterCommand
           /\ Len(action_history') = Len(action_history) + 1
           /\ SubSeq(action_history', 1, Len(action_history)) = action_history
           /\ engine_butterfly_index' >= engine_butterfly_index
           /\ \A i \in 1..Len(anchors') :
                  anchors'[i].era = Get(tc_call'.data, "era", "Renaissance") =>
                      anchors'[i].status = "paradox"]_vars

\* a destroy command of risk 0.75 at index 92: the post-check rejects it, the
\* worlds are as before, the index has risen to 100, the history is one
\* longer and the Renaissance anchor has become a paradox
C35_Witness ==
    /\ tc_calls > 0
    /\ tc_call.stage = "post_check"
    /\ tc_call.draw.u = 750
    /\ world_states = tc_call.before.worlds
    /\ tc_call.before.engine.butterfly_index = 92000000
    /\ engine_butterfly_index = 100000000
    /\ Len(action_history) = Len(tc_call.before.engine.action_history) + 1
    /\ anchors # tc_call.before.engine.anchors
    /\ \E i \in 1..Len(anchors) :
           anchors[i].era = "Renaissance" /\ anchors[i].status = "paradox"

\* line 288: the command of the request has a destroy keyword
IsDestroy(data) ==
    AnyWordIn(destroy_words, Lower(Get(data, "command", <<>>)))

\* C39: on the procedural path a command without a destroy keyword never
\* sets an anchor's status to paradox (its is_paradox is false) and is never
\* rejected with paradox_gridlock at the post-check, whatever butterfly_index
\* is; only commands classified as destroy can do either.
C39_OnlyDestroyCommandsMakeParadoxes ==
    (/\ tc_calls > 0
     /\ tc_call.stage \in {"post_check", "answered"}
     /\ ~IsDestroy(tc_call.data)) =>
        /\ tc_call.stage = "answered"
        /\ tc_call.post_check.approved
        /\ tc_call.post_check.paradox.status # "gridlock"
        /\ ~tc_ret.is_paradox
        /\ \A i \in 1..Len(anchors) :
               anchors[i].status = "paradox" =>
                   tc_call.before.engine.anchors[i].status = "paradox"

\* a change command with the jitter at its upper end at index 100: the
\* post-check approves and the request is answered
C39_Witness ==
    /\ tc_calls > 0
    /\ tc_call.stage = "answered"
    /\ ~IsDestroy(tc_call.data)
    /\ tc_call.draw.u = 999
    /\ tc_call.before.engine.butterfly_index = 100000000
    /\ tc_call.post_check.approved
    /\ ~tc_ret.is_paradox

(***************************************************************************)
(* Specification SpecEngineLate: one caller at a time uses an engine built *)
(* without a client, new or as a session of commands has left it, with     *)
(* process_command and the engine's two queries.                           *)
(***************************************************************************)
InitEngineLate ==
    /\ \E session \in {SessionAfter(0), SessionAfter(LateRequests)} :
           /\ anchors = session.engine.anchors
           /\ causal_links = session.engine.causal_links
           /\ branches = session.engine.branches
           /\ engine_butterfly_index = session.engine.butterfly_index
           /\ action_history = session.engine.action_history
           /\ client = session.engine.client
           /\ clock = 2 * Len(session.engine.action_history)
    /\ en_pc = "idle"
    /\ en_call = None
    /\ en_ret = None
    /\ timeline_seen = None
    /\ process_command_calls = 0
    /\ th = <<>>
    /\ limiter_log = <<>>
    /\ AppOff
    /\ FilterOff
    /\ GuardrailsNew
    /\ PathOff
    /\ CausalityOff

NextEngineLate ==
    \/ ProcessCommand
    \/ GetTimelineState
    \/ EngineCheckCausality

SpecEngineLate == InitEngineLate /\ [][NextEngineLate]_vars

\* C37: on the procedural path butterfly_index never decreases: every
\* process_command leaves it greater than or equal to its previous value and
\* no other operation lowers it, so once butterfly_index is 100 it stays 100.
C37_IndexNeverDecreases ==
    [][/\ engine_butterfly_index' >= engine_butterfly_index
       /\ engine_butterfly_index = 100000000 =>
              engine_butterfly_index' = 100000000]_vars

\* a command on an engine whose index was 100 already
C37_Witness ==
    /\ process_command_calls > 0
    /\ en_call.op = "process_command"
    /\ en_call.before = 100000000
    /\ engine_butterfly_index = 100000000

(***************************************************************************)
(* Inputs of the filter runs                                               *)
(***************************************************************************)
MaxFragments == 2
MaxNarratives == 2

Fragments ==
    { <<"g","e","n","o","c","i","d","e">>,
      <<"T","O","R","T","U","R","E">>,
      <<"t","o","r">>,
      <<"t","u","r","e">>,
      <<"p","l","a","g","u","e">>,
      <<"E","n","s","l","a","v","e">>,
      <<"w","a","r">>,
      <<"s","p","y">>,
      <<" ","l","o","o","k"," ">> }

RECURSIVE Concat(_)
Concat(seqOfTexts) ==
    IF seqOfTexts = <<>> THEN <<>> ELSE Head(seqOfTexts) \o Concat(Tail(seqOfTexts))

\* every text made of at most MaxFragments fragments, the empty text included
Texts == {Concat(fs) : fs \in SeqsUpTo(Fragments, MaxFragments)}

\* the strings the narrative lists are made of
NarrativeTexts ==
    { <<>>,
      <<"G","e","n","o","c","i","d","e">>,
      <<"t","o","r">> \o <<"t","u","r","e">>,
      <<"p","l","a","g","u","e">>,
      <<"w","a","r">>,
      <<" ","l","o","o","k"," ">>,
      REDACTION_MARKER }

NarrativeLists == SeqsUpTo(NarrativeTexts, MaxNarratives)

(***************************************************************************)
(* SpecFilter: one call of the stateless filter on a drawn input           *)
(***************************************************************************)
InitFilter ==
    /\ GuardrailsNew
    /\ EngineOff
    /\ GraphOff
    /\ fl_pc = "ready"
    /\ fl_in \in [kind : {"text"}, text : Texts]
                 \cup [kind : {"list"}, list : NarrativeLists]
    /\ fl_ret = None

CheckContentCall ==
    /\ fl_pc = "ready"
    /\ fl_in.kind = "text"
    /\ fl_ret' = [op |-> "check_content", value |-> check_content(fl_in.text)]
    /\ fl_pc' = "done"
    /\ UNCHANGED <<fl_in, guardVars, graphVars, pathVars, causalityVars, engineVars, threadVars, appVars>>

SanitizeNarrativeCall ==
    /\ fl_pc = "ready"
    /\ fl_in.kind = "list"
    /\ fl_ret' = [op |-> "sanitize_narrative", value |-> sanitize_narrative(fl_in.list)]
    /\ fl_pc' = "done"
    /\ UNCHANGED <<fl_in, guardVars, graphVars, pathVars, causalityVars, engineVars, threadVars, appVars>>

SanitizeOutputCall ==
    /\ fl_pc = "ready"
    /\ fl_in.kind = "list"
    /\ fl_ret' = [op |-> "sanitize_output", value |-> sanitize_output(fl_in.list)]
    /\ fl_pc' = "done"
    /\ UNCHANGED <<fl_in, guardVars, graphVars, pathVars, causalityVars, engineVars, threadVars, appVars>>

NextFilter == CheckContentCall \/ SanitizeNarrativeCall \/ SanitizeOutputCall

SpecFilter == InitFilter /\ [][NextFilter]_vars

(***************************************************************************)
(* Claims on the filter runs (SpecFilter)                                  *)
(***************************************************************************)
\* some keyword of the list occurs in the text, ignoring case
HasAny(keywords, text) ==
    \E i \in 1..Len(keywords) : Contains(Lower(text), keywords[i])

FilterReturned(op) == fl_pc = "done" /\ fl_ret.op = op

\* C4: check_content classifies a text by the most severe keyword class it
\* contains (case-insensitive substring match): blocked and not safe if any
\* high-risk keyword occurs, whatever else matches; otherwise warning and safe
\* if any medium-risk keyword occurs; otherwise safe, the low-risk matches
\* being recorded as violations; the empty text is safe with no violations.
C4_MostSevereClassWins ==
    FilterReturned("check_content") =>
        LET text == fl_in.text
            r == fl_ret.value
            high == HasAny(high_risk, text)
            medium == HasAny(medium_risk, text)
            recorded == {r.violations[i] : i \in 1..Len(r.violations)}
        IN  /\ high => (r.risk_level = "blocked" /\ ~r.is_safe)
            /\ (~high /\ medium) => (r.risk_level = "warning" /\ r.is_safe)
            /\ (~high /\ ~medium) =>
                   /\ r.risk_level = "safe"
                   /\ r.is_safe
                   /\ recorded = {[keyword |-> low_risk[i], severity |-> "low"] :
                                    i \in {j \in 1..Len(low_risk) :
                                             Contains(Lower(text), low_risk[j])}}
            /\ text = <<>> => (r.risk_level = "safe" /\ r.is_safe /\ r.violations = <<>>)

\* a text holding a high-risk and a medium-risk keyword was classified blocked
C4_Witness ==
    /\ FilterReturned("check_content")
    /\ HasAny(high_risk, fl_in.text)
    /\ HasAny(medium_risk, fl_in.text)
    /\ fl_ret.value.risk_level = "blocked"

\* C5: sanitize_narrative, and sanitize_output which delegates to it, return a
\* list of the same length whose position i holds the redaction marker if
\* input string i contains a high-risk keyword and input string i otherwise.
C5_SanitizeIsPointwise ==
    (FilterReturned("sanitize_narrative") \/ FilterReturned("sanitize_output")) =>
        LET narratives == fl_in.list
            sanitized == fl_ret.value
        IN  /\ Len(sanitized) = Len(narratives)
            /\ \A i \in 1..Len(narratives) :
                   sanitized[i] = IF HasAny(high_risk, narratives[i])
                                  THEN REDACTION_MARKER ELSE narratives[i]

\* a list with a blocked string before a harmless one was sanitized
C5_Witness ==
    /\ FilterReturned("sanitize_output")
    /\ Len(fl_in.list) = 2
    /\ HasAny(high_risk, fl_in.list[1])
    /\ ~HasAny(high_risk, fl_in.list[2])
    /\ fl_in.list[2] # REDACTION_MARKER
    /\ fl_ret.value = <<REDACTION_MARKER, fl_in.list[2]>>

\* C38: sanitize_narrative is idempotent and its output is clean: sanitizing
\* the list it returned gives that list again, and no element of the list it
\* returned is classified blocked by check_content (the redaction marker has no
\* high-risk keyword).
C38_SanitizeIsIdempotentAndClean ==
    (fl_pc = "done" /\ fl_ret.op = "sanitize_narrative") =>
        /\ sanitize_narrative(fl_ret.value) = fl_ret.value
        /\ \A i \in 1..Len(fl_ret.value) :
               check_content(fl_ret.value[i]).risk_level # "blocked"

\* a blocked narrative followed by the marker itself: both come out as the marker
C38_Witness ==
    /\ fl_pc = "done"
    /\ fl_ret.op = "sanitize_narrative"
    /\ Len(fl_in.list) = 2
    /\ check_content(fl_in.list[1]).risk_level = "blocked"
    /\ fl_in.list[2] = REDACTION_MARKER
    /\ fl_ret.value = <<REDACTION_MARKER, REDACTION_MARKER>>

====
